---- MODULE Spec2Model ----
(***************************************************************************)
(* The SEO analysis pipeline of gcp-seo-tracker: SEOAnalyzer.analyze_seo   *)
(* (src/app/utils/seo_analyzer.py) run over the crawl data that            *)
(* crawl_webpage (src/app/utils/web_crawler.py) hands to it.               *)
(*                                                                         *)
(* Representation.  A Python str is a sequence of one-character strings,   *)
(* so len() is Len and strip()/split() are computed on the characters.     *)
(* Python's None is the value None (below).  A dict with fixed keys is a record,   *)
(* the details dict (keys added as the checks run) is a function whose     *)
(* domain is the set of keys present.  An f-string is the record of its    *)
(* template and of the values interpolated into it.  A percentage (a       *)
(* float with two decimals) is the integer number of hundredths of a       *)
(* percent, so 3.0 is 300.                                                 *)
(***************************************************************************)
EXTENDS Integers, Sequences, FiniteSets, TLC

VARIABLES
    crawl_data,   \* the argument of analyze_seo: the dict crawl_webpage returned
    analysis,     \* the accumulator dict of analyze_seo (None before it is built)
    result,       \* the value analyze_seo returned (None while it runs)
    pc,           \* the statement that runs next
    soup_text,    \* extract_keywords: the words of soup.get_text(), in order
    min_length,   \* extract_keywords: its argument min_length
    top_n,        \* extract_keywords: its argument top_n
    extracted,    \* extract_keywords: the list it returned (None before)
    calls,        \* the calls of analyze_seo so far: argument, objects, result
    objects,      \* the number of dicts and lists the calls have created
    report,       \* what generate_seo_report made of result (NoReport before)
    report_kw,    \* what generate_seo_report_with_keywords made of result
    tool,         \* the tool function that was called ("none": no tool)
    tool_url,     \* the tool's argument url
    gets,         \* the HTTP GET requests issued since the tool was called
    response,     \* what requests.get did (NoResponse before)
    tool_result,  \* the dict the tool returned (NotReturned before)
    soup,         \* crawl_webpage: the parsed document, as it is when
                  \* crawl_webpage returns (None before it is parsed)
    img_tags,     \* extract_images: the img elements of the document
    base_url,     \* extract_images: its argument base_url
    images_found, \* extract_images: the list it returned (None before)
    tree,         \* get_element_position: the parsed document of its tag
    tag,          \* get_element_position: its argument, an element of tree
    position,     \* get_element_position: the int it returned (None before)
    active_connections, \* server: the dict user_id -> websocket and session
    handlers,     \* server: the runs of websocket_endpoint, one per connection
    sessions,     \* server: the sessions the session service has created
    health        \* server: the last response of /health

\* the variables of extract_images and of get_element_position
elementVars == <<img_tags, base_url, images_found, tree, tag, position>>

\* the variables of extract_keywords and of the other extractors
keywordVars == <<soup_text, min_length, top_n, extracted, elementVars>>

\* the variables of SEOAnalyzer.analyze_seo
analyzerVars == <<crawl_data, analysis, result>>

\* the record of the calls of analyze_seo
callVars == <<calls, objects>>

\* the variables of the report generators
reportVars == <<report, report_kw>>

\* the variables of a tool call: the tool, its url, the requests of
\* crawl_webpage and the tool's result
toolVars == <<tool, tool_url, gets, response, tool_result, soup>>

\* the variables of the server
serverVars == <<active_connections, handlers, sessions, health>>

\* the variables analyze_seo never touches
notAnalyzer == <<keywordVars, reportVars, toolVars, serverVars>>

vars == <<analyzerVars, pc, keywordVars, callVars, reportVars, toolVars, serverVars>>

\* Python's None: a value no str equals (the elements of a str are single
\* characters)
None == <<"None">>

-----------------------------------------------------------------------------
(* Bounds of the enumerated pages.                                         *)

MaxH1 == 2          \* h1 elements on a page
MaxHn == 1          \* h2 .. h5 elements on a page
MaxImages == 5      \* img elements on a page
MaxParagraphs == 2  \* non-empty p elements on a page
MaxLinks == 3       \* a[href] elements on a page

-----------------------------------------------------------------------------
(* Strings.                                                                *)

\* a text of n characters none of which is white space
Str(n) == [i \in 1..n |-> "x"]

\* a text of n words separated by single spaces
Words(n) == [i \in 1..(IF n = 0 THEN 0 ELSE 2 * n - 1) |-> IF i % 2 = 1 THEN "x" ELSE " "]

\* a list of n (heading) texts
Texts(n) == [i \in 1..n |-> Str(1)]

IsSpace(c) == c = " "

RECURSIVE LStrip(_)
LStrip(s) == IF s # <<>> /\ IsSpace(Head(s)) THEN LStrip(Tail(s)) ELSE s

RECURSIVE RStrip(_)
RStrip(s) ==
    IF s # <<>> /\ IsSpace(s[Len(s)]) THEN RStrip(SubSeq(s, 1, Len(s) - 1)) ELSE s

\* str.strip()
Strip(s) == RStrip(LStrip(s))

\* len(s.split()): the number of maximal runs of non-space characters
SplitLen(s) ==
    Cardinality({i \in 1..Len(s) : ~IsSpace(s[i]) /\ (i = 1 \/ IsSpace(s[i - 1]))})

\* Python truthiness of an Optional[str]: not None and not empty
Truthy(s) == s # None /\ s # <<>>

UpperCase ==
    <<"A", "B", "C", "D", "E", "F", "G", "H", "I", "J", "K", "L", "M",
      "N", "O", "P", "Q", "R", "S", "T", "U", "V", "W", "X", "Y", "Z">>

LowerCase ==
    <<"a", "b", "c", "d", "e", "f", "g", "h", "i", "j", "k", "l", "m",
      "n", "o", "p", "q", "r", "s", "t", "u", "v", "w", "x", "y", "z">>

\* str.lower() on one character: an upper-case ASCII letter becomes its
\* lower-case letter, every other character of the texts below is kept
LowerChar(c) ==
    IF \E i \in 1..Len(UpperCase) : UpperCase[i] = c
    THEN LowerCase[CHOOSE i \in 1..Len(UpperCase) : UpperCase[i] = c]
    ELSE c

\* str.lower()
Lower(s) == [i \in 1..Len(s) |-> LowerChar(s[i])]

RECURSIVE SumSeq(_)
SumSeq(s) == IF s = <<>> THEN 0 ELSE Head(s) + SumSeq(Tail(s))

\* the integer nearest to a / b (a >= 0, b > 0), a tie going to the even one
RoundHalfEven(a, b) ==
    LET q == a \div b
        r == a % b
    IN  IF 2 * r < b THEN q
        ELSE IF 2 * r > b THEN q + 1
        ELSE IF q % 2 = 0 THEN q ELSE q + 1

\* an f-string: its template and the values interpolated (n a number, w a word)
Fmt(tmpl, w, n) == [tmpl |-> tmpl, w |-> w, n |-> n]

-----------------------------------------------------------------------------
(* SEOAnalyzer.__init__                                                    *)

seo_rules ==
    [title_length            |-> [min |-> 30, max |-> 60],
     meta_description_length |-> [min |-> 120, max |-> 160],
     h1_count                |-> [min |-> 1, max |-> 1],
     keyword_density         |-> [min |-> 100, max |-> 300],
     image_alt_ratio         |-> [min |-> 80],       \* 0.8, in hundredths
     internal_links_min      |-> 3,
     paragraph_min_words     |-> 20]

ContentMinWords == 300    \* the literal of _analyze_content_length
ContentLongWords == 1000
TopKeywordCount == 10     \* keywords[:10]
ExtractTopN == 20         \* top_n of extract_keywords

-----------------------------------------------------------------------------
(* The crawl data crawl_webpage produces (web_crawler.py lines 47-60).     *)

\* 'http://' and the URLs of the enumerated pages and links
Http == <<"h", "t", "t", "p", ":", "/", "/">>
Https == <<"h", "t", "t", "p", "s", ":", "/", "/">>
PageUrl == Http \o <<"a">>
\* the same page requested with an upper-case scheme, which requests accepts
\* and which crawl_webpage stores as it was given
UpperUrl == <<"H", "T", "T", "P", ":", "/", "/", "a">>
InternalHref == Http \o <<"a", "/", "p">>
SecureHref == Https \o <<"a", "/">>
ExternalHref == Http \o <<"b", "/">>
MailtoHref == <<"m", "a", "i", "l", "t", "o", ":", "x">>

\* extract_headings: one list of texts per level h1 .. h6
Headings(n1, n2, n3, n4, n5) ==
    [h1 |-> Texts(n1), h2 |-> Texts(n2), h3 |-> Texts(n3),
     h4 |-> Texts(n4), h5 |-> Texts(n5), h6 |-> Texts(0)]

\* extract_images: a images with a text alt, b with a white-space alt, c with
\* no alt (img.get('alt', '') is then '')
Images(a, b, c) ==
    [i \in 1..(a + b + c) |->
        [alt |-> IF i <= a THEN Str(3) ELSE IF i <= a + b THEN <<" ">> ELSE <<>>]]

\* 44 images of which 35 have an alt text: 35 / 44 is below 0.8 and
\* round(35 / 44, 2) is 0.8
ManyImages == Images(35, 0, 9)

\* the names of the keywords, in rank order
Word(i) ==
    <<"w01", "w02", "w03", "w04", "w05", "w06", "w07", "w08", "w09", "w10", "w11",
      "w12", "w13", "w14", "w15", "w16", "w17", "w18", "w19", "w20", "w21">>[i]

\* the tail of extract_keywords: the top_n (word, count) pairs in rank order,
\* each with percentage round(count / len(filtered_words) * 100, 2)
TopKeywords(counts, filtered) ==
    [i \in 1..(IF Len(counts) < ExtractTopN THEN Len(counts) ELSE ExtractTopN) |->
        [word |-> Word(i), count |-> counts[i],
         percentage |-> RoundHalfEven(counts[i] * 10000, filtered)]]

\* the counts a, b, 1, 1, ... of n distinct words
Counts(a, b, n) == [i \in 1..n |-> IF i = 1 THEN a ELSE IF i = 2 THEN b ELSE 1]

TitleInputs ==
    {None, Str(0), Str(1),
     Str(seo_rules.title_length.min - 1), Str(seo_rules.title_length.min),
     Str(seo_rules.title_length.max), Str(seo_rules.title_length.max + 1)}

MetaInputs ==
    {None, Str(0),
     Str(seo_rules.meta_description_length.min - 1),
     Str(seo_rules.meta_description_length.min),
     Str(seo_rules.meta_description_length.max),
     Str(seo_rules.meta_description_length.max + 1)}

HeadingsInputs ==
    {Headings(n1, n2, n3, n4, n5) :
        n1 \in 0..MaxH1, n2 \in 0..MaxHn, n3 \in 0..MaxHn, n4 \in 0..MaxHn, n5 \in 0..MaxHn}

ImagesInputs ==
    {Images(t[1], t[2], t[3]) :
        t \in {u \in (0..MaxImages) \X (0..MaxImages) \X (0..MaxImages) :
                  u[1] + u[2] + u[3] <= MaxImages}}

ParagraphTexts ==
    {Words(1), Words(seo_rules.paragraph_min_words - 1),
     Words(seo_rules.paragraph_min_words), Words(seo_rules.paragraph_min_words + 1)}

ParagraphsInputs == UNION {[1..n -> ParagraphTexts] : n \in 0..MaxParagraphs}

\* a keyword list that extract_keywords cannot return and a caller of
\* analyze_seo and of the report generators can pass: 21 keywords at 1%, the
\* third and the seventh of two words
CallerKeywords ==
    [i \in 1..(ExtractTopN + 1) |->
        [word |-> IF i = 3 THEN "long tail" ELSE IF i = 7 THEN "seo tips" ELSE Word(i),
         count |-> 1, percentage |-> 100]]

\* keyword lists: none; the example of the specification (60% and 40%); 100
\* filtered tokens whose top word is at 2%, 3% (the boundary) or 4%; 100
\* filtered tokens with two words at 4%; 21 words used once each (4.76% each)
KeywordsInputs ==
    {TopKeywords(<<>>, 0),
     TopKeywords(<<3, 2>>, 5),
     TopKeywords(Counts(2, 2, ExtractTopN), 100),
     TopKeywords(Counts(3, 3, ExtractTopN), 100),
     TopKeywords(Counts(4, 3, ExtractTopN), 100),
     TopKeywords(Counts(4, 4, ExtractTopN), 100),
     TopKeywords(Counts(1, 1, ExtractTopN + 1), ExtractTopN + 1),
     CallerKeywords}

LinkInputs ==
    {[href |-> h] : h \in {InternalHref, SecureHref, ExternalHref, MailtoHref, <<>>}}

LinksInputs == UNION {[1..n -> LinkInputs] : n \in 0..MaxLinks}

WordCountInputs ==
    {0, ContentMinWords - 1, ContentMinWords, ContentLongWords - 1, ContentLongWords}

Page(title, meta, headings, images, paragraphs, keywords, links, words) ==
    [url |-> PageUrl, title |-> title, meta_description |-> meta,
     headings |-> headings, images |-> images, paragraphs |-> paragraphs,
     links |-> links, keywords |-> keywords, word_count |-> words]

\* a page that passes every check
GoodPage ==
    Page(Str(seo_rules.title_length.min), Str(seo_rules.meta_description_length.min),
         Headings(1, 1, 0, 0, 0), Images(4, 1, 0),
         <<Words(seo_rules.paragraph_min_words)>>,
         TopKeywords(Counts(3, 3, ExtractTopN), 100),
         [i \in 1..seo_rules.internal_links_min |-> [href |-> InternalHref]],
         ContentMinWords)

\* every combination of one passing value, one failing value and (where the
\* check can be skipped) the empty collection per check
MixedPages ==
    {Page(t, m, h, i, p, k, l, w) :
        t \in {Str(seo_rules.title_length.min - 1), Str(seo_rules.title_length.min)},
        m \in {None, Str(seo_rules.meta_description_length.max)},
        h \in {Headings(1, 1, 0, 0, 0), Headings(0, 1, 0, 0, 0)},
        i \in {Images(0, 0, 0), Images(4, 1, 0), Images(3, 1, 1)},
        p \in {<<>>, <<Words(seo_rules.paragraph_min_words)>>,
               <<Words(seo_rules.paragraph_min_words - 1), Words(seo_rules.paragraph_min_words)>>},
        k \in {TopKeywords(<<>>, 0), TopKeywords(Counts(3, 3, ExtractTopN), 100),
               TopKeywords(Counts(4, 4, ExtractTopN), 100)},
        l \in {<<>>, GoodPage.links, <<[href |-> InternalHref], [href |-> ExternalHref]>>},
        w \in {ContentMinWords - 1, ContentMinWords}}

\* the good page with one field ranging over all its enumerated values
VariedPages ==
    {[GoodPage EXCEPT !.title = t] : t \in TitleInputs}
    \cup {[GoodPage EXCEPT !.meta_description = m] : m \in MetaInputs}
    \cup {[GoodPage EXCEPT !.headings = h] : h \in HeadingsInputs}
    \cup {[GoodPage EXCEPT !.images = i] : i \in ImagesInputs}
    \cup {[GoodPage EXCEPT !.paragraphs = p] : p \in ParagraphsInputs}
    \cup {[GoodPage EXCEPT !.keywords = k] : k \in KeywordsInputs}
    \cup {[GoodPage EXCEPT !.links = l] : l \in LinksInputs}
    \cup {[GoodPage EXCEPT !.word_count = w] : w \in WordCountInputs}
    \cup {[GoodPage EXCEPT !.url = UpperUrl, !.links = l] : l \in LinksInputs}
    \cup {[GoodPage EXCEPT !.images = ManyImages]}

\* the two error results of crawl_webpage (lines 64-75)
ErrorPages ==
    {[error |-> e, url |-> PageUrl, status_code |-> None] :
        e \in {"Error fetching web page", "Error during analysis"}}

\* pages without title and meta description, with one h1, a valid heading
\* hierarchy, every image with an alt text, no or long enough paragraphs,
\* one or two keywords at 5%, three internal links and 300 or 1000 words
ScenarioPages ==
    {Page(t, m, Headings(1, h2, 0, 0, 0), Images(i, 0, 0), p, k, GoodPage.links, w) :
        t \in {None, Str(0)},
        m \in {None, Str(0)},
        h2 \in {0, 1},
        i \in {0, 4},
        p \in {<<>>, GoodPage.paragraphs},
        k \in {TopKeywords(Counts(5, 1, ExtractTopN), 100),
               TopKeywords(Counts(5, 5, ExtractTopN), 100)},
        w \in {ContentMinWords, ContentLongWords}}

CrawlResults == MixedPages \cup VariedPages \cup ScenarioPages \cup ErrorPages

-----------------------------------------------------------------------------
(* Helpers of the checks.                                                  *)

\* dict.__setitem__ on the details dict
SetItem(d, k, v) == (k :> v) @@ d

\* analysis with details[k] = v
WithDetail(a, k, v) == [a EXCEPT !.details = SetItem(@, k, v)]

\* faulty variant of Passed: the pass is recorded without counting the check
Passed_NotCounted(a) == [a EXCEPT !.passed_checks = @ + 1]

\* a check that was counted and passed
Passed(a) == [a EXCEPT !.total_checks = @ + 1, !.passed_checks = @ + 1]

\* faulty variant of Failed: the issue is recorded without a recommendation
Failed_NoRecommendation(a, issue, recommendation) ==
    [a EXCEPT !.total_checks = @ + 1, !.issues = Append(@, issue)]

\* a check that was counted and failed with one issue and one recommendation
Failed(a, issue, recommendation) ==
    [a EXCEPT !.total_checks = @ + 1,
              !.issues = Append(@, issue),
              !.recommendations = Append(@, recommendation)]

\* faulty variant of CheckHeadingHierarchy: only H2 without H1 is rejected
CheckHeadingHierarchy_H1Only(headings) ==
    ~(Len(headings.h1) = 0 /\ Len(headings.h2) > 0)

\* SEOAnalyzer._check_heading_hierarchy
CheckHeadingHierarchy(headings) ==
    LET has_h1 == Len(headings.h1) > 0
        has_h2 == Len(headings.h2) > 0
        has_h3 == Len(headings.h3) > 0
        has_h4 == Len(headings.h4) > 0
    IN  IF ~has_h1 /\ has_h2 THEN FALSE
        ELSE IF ~has_h2 /\ has_h3 THEN FALSE
        ELSE IF ~has_h3 /\ has_h4 THEN FALSE
        ELSE TRUE

\* the regular expression https?://([^/]+) matches s at position i
DomainMatchAt(s, i) ==
    LET k == IF i + 4 <= Len(s) /\ s[i + 4] = "s" THEN i + 5 ELSE i + 4
    IN  /\ k + 3 <= Len(s)
        /\ SubSeq(s, i, i + 3) = <<"h", "t", "t", "p">>
        /\ SubSeq(s, k, k + 2) = <<":", "/", "/">>
        /\ s[k + 3] # "/"

\* SEOAnalyzer._extract_domain: group 1 of the leftmost match, '' without one
ExtractDomain(url) ==
    LET starts == {i \in 1..Len(url) : DomainMatchAt(url, i)}
    IN  IF starts = {} THEN <<>>
        ELSE LET i == CHOOSE j \in starts : \A m \in starts : j <= m
                 k == IF url[i + 4] = "s" THEN i + 5 ELSE i + 4
                 from == k + 3
                 slashes == {j \in from..Len(url) : url[j] = "/"}
                 to == IF slashes = {} THEN Len(url)
                       ELSE (CHOOSE j \in slashes : \A m \in slashes : j <= m) - 1
             IN  SubSeq(url, from, to)

\* faulty variant of PyRoundPercent: a half-way quotient is rounded up
PyRoundPercent_HalfUp(passed, total) == (200 * passed + total) \div (2 * total)

\* the value Python's round(passed / total * 100) returns.  The quotient is
\* half-way between two integers only for total = 8, where passed / 8 and
\* its product with 100 are exact in binary floating point, and round()
\* then returns the even neighbour.
PyRoundPercent(passed, total) == RoundHalfEven(100 * passed, total)

\* the number format(avg, '.1f') prints, in tenths, for avg = sum / n
FormatTenths(sum, n) == RoundHalfEven(10 * sum, n)

-----------------------------------------------------------------------------
(* SEOAnalyzer.analyze_seo, one action per statement of lines 46-72.       *)

\* what a report generator returned: what it is (the report, the error
\* line, or the lines built when an exception ended the generator), its
\* sections, and the exception
Report(kind, header, keyword_lines, summary, issues, passed, recs, technical, raised) ==
    [kind |-> kind, header |-> header, keywords |-> keyword_lines,
     summary |-> summary, issues |-> issues, passed_tests |-> passed,
     recommendations |-> recs, technical |-> technical, raised |-> raised]

\* no report has been asked for
NoReport == Report("none", <<>>, <<>>, <<>>, <<>>, <<>>, <<>>, <<>>, "")

\* requests.get has not been called
NoResponse == [kind |-> "none", status_code |-> 0, content |-> None, error |-> ""]

\* the tool has not returned
NotReturned == [status |-> "none"]

\* get_element_position is not called
NoPositionCall == tree = None /\ tag = None /\ position = None

\* extract_images and get_element_position are not called
NoElementCall ==
    /\ img_tags = None /\ base_url = None /\ images_found = None
    /\ NoPositionCall

\* /health was not requested
NoHealthResponse == [status |-> "none"]

\* the server is not running: no connection, no session, no request
NoServer ==
    /\ active_connections = <<>>
    /\ handlers = <<>>
    /\ sessions = 0
    /\ health = NoHealthResponse

\* no tool was called: analyze_seo or extract_keywords is called directly
NoToolCall ==
    /\ tool = "none"
    /\ tool_url = None
    /\ gets = 0
    /\ response = NoResponse
    /\ tool_result = NotReturned
    /\ soup = None

Init ==
    /\ crawl_data \in CrawlResults
    /\ analysis = None
    /\ result = None
    /\ pc = "begin"
    /\ soup_text = None /\ min_length = None /\ top_n = None /\ extracted = None
    /\ NoElementCall
    /\ calls = <<>>
    /\ objects = 0
    /\ report = NoReport /\ report_kw = NoReport
    /\ NoToolCall
    /\ NoServer

\* the record of one call: the crawl data it was given, the crawl data as
\* it is when the call returns, the identities of the dicts and lists the
\* call created to hold its result, and the result
Call(given, refs, returned, value) ==
    [given |-> given, after |-> IF returned THEN given ELSE None,
     refs |-> refs, returned |-> returned, result |-> value]

\* n newly created objects
NewObjects(n) == [i \in 1..n |-> objects + i]

\* the dict literal of lines 49-57
NewAnalysis(url) ==
    [url |-> url, seo_score |-> 0, total_checks |-> 0, passed_checks |-> 0,
     issues |-> <<>>, recommendations |-> <<>>, details |-> <<>>]

\* faulty variant of AnalyzeSeoBegin: the accumulator is kept between the
\* calls and only its url is set
AnalyzeSeoBegin_KeptAccumulator ==
    /\ pc = "begin"
    /\ IF "error" \in DOMAIN crawl_data
       THEN /\ result' = [error |-> crawl_data.error, seo_score |-> 0]
            /\ pc' = "done"
            /\ UNCHANGED analysis
            /\ calls' = Append(calls, Call(crawl_data, NewObjects(1), TRUE, result'))
            /\ objects' = objects + 1
       ELSE LET kept == SelectSeq(calls, LAMBDA c : Len(c.refs) = 4)
            IN  /\ analysis' = IF kept = <<>> THEN NewAnalysis(crawl_data.url)
                               ELSE [kept[Len(kept)].result EXCEPT !.url = crawl_data.url]
                /\ pc' = "title"
                /\ UNCHANGED result
                /\ calls' = Append(calls,
                                   Call(crawl_data,
                                        IF kept = <<>> THEN NewObjects(4)
                                        ELSE kept[Len(kept)].refs,
                                        FALSE, None))
                /\ objects' = IF kept = <<>> THEN objects + 4 ELSE objects
    /\ UNCHANGED <<crawl_data, notAnalyzer>>

\* lines 46-57: the error short cut (a new dict), else a new accumulator:
\* the dict, its two lists and its details dict
AnalyzeSeoBegin ==
    /\ pc = "begin"
    /\ IF "error" \in DOMAIN crawl_data
       THEN /\ result' = [error |-> crawl_data.error, seo_score |-> 0]
            /\ pc' = "done"
            /\ UNCHANGED analysis
            /\ calls' = Append(calls, Call(crawl_data, NewObjects(1), TRUE, result'))
            /\ objects' = objects + 1
       ELSE /\ analysis' = NewAnalysis(crawl_data.url)
            /\ pc' = "title"
            /\ UNCHANGED result
            /\ calls' = Append(calls, Call(crawl_data, NewObjects(4), FALSE, None))
            /\ objects' = objects + 4
    /\ UNCHANGED <<crawl_data, notAnalyzer>>

\* title_length < seo_rules['title_length']['min']
TitleTooShort(title_length) == title_length < seo_rules.title_length.min

\* faulty variant of TitleTooLong: a title of exactly max characters is too long
TitleTooLong_Inclusive(title_length) == title_length >= seo_rules.title_length.max

\* title_length > seo_rules['title_length']['max']
TitleTooLong(title_length) == title_length > seo_rules.title_length.max

\* SEOAnalyzer._analyze_title
AnalyzeTitleResult(a, title) ==
    IF ~Truthy(title)
    THEN WithDetail(Failed(a, Fmt("Title tag missing", "", 0),
                           Fmt("Add a meaningful title tag to the page", "", 0)),
                    "title", [status |-> "missing", length |-> 0])
    ELSE LET title_length == Len(title)
             info == [content |-> title, length |-> title_length, status |-> "exists"]
         IN  IF TitleTooShort(title_length)
             THEN WithDetail(Failed(a, Fmt("Title too short ({} characters)", "", title_length),
                                    Fmt("Title should be at least {} characters", "",
                                        seo_rules.title_length.min)),
                             "title", info)
             ELSE IF TitleTooLong(title_length)
             THEN WithDetail(Failed(a, Fmt("Title too long ({} characters)", "", title_length),
                                    Fmt("Title should be at most {} characters", "",
                                        seo_rules.title_length.max)),
                             "title", info)
             ELSE WithDetail(Passed(a), "title", [info EXCEPT !.status = "optimal"])

AnalyzeTitle ==
    /\ pc = "title"
    /\ analysis' = AnalyzeTitleResult(analysis, crawl_data.title)
    /\ pc' = "meta_description"
    /\ UNCHANGED <<crawl_data, result, callVars, notAnalyzer>>

\* SEOAnalyzer._analyze_meta_description
AnalyzeMetaDescriptionResult(a, meta_desc) ==
    IF ~Truthy(meta_desc)
    THEN WithDetail(Failed(a, Fmt("Meta description missing", "", 0),
                           Fmt("Add meta description to the page", "", 0)),
                    "meta_description", [status |-> "missing", length |-> 0])
    ELSE LET desc_length == Len(meta_desc)
             info == [content |-> meta_desc, length |-> desc_length, status |-> "exists"]
         IN  IF desc_length < seo_rules.meta_description_length.min
             THEN WithDetail(Failed(a, Fmt("Meta description too short ({} characters)", "",
                                           desc_length),
                                    Fmt("Meta description should be at least {} characters", "",
                                        seo_rules.meta_description_length.min)),
                             "meta_description", info)
             ELSE IF desc_length > seo_rules.meta_description_length.max
             THEN WithDetail(Failed(a, Fmt("Meta description too long ({} characters)", "",
                                           desc_length),
                                    Fmt("Meta description should be at most {} characters", "",
                                        seo_rules.meta_description_length.max)),
                             "meta_description", info)
             ELSE WithDetail(Passed(a), "meta_description", [info EXCEPT !.status = "optimal"])

AnalyzeMetaDescription ==
    /\ pc = "meta_description"
    /\ analysis' = AnalyzeMetaDescriptionResult(analysis, crawl_data.meta_description)
    /\ pc' = "headings"
    /\ UNCHANGED <<crawl_data, result, callVars, notAnalyzer>>

\* SEOAnalyzer._analyze_headings: the H1 count check, then the hierarchy check
HeadingsInfo(headings) ==
    [h1 |-> [count |-> Len(headings.h1), content |-> headings.h1],
     h2 |-> [count |-> Len(headings.h2), content |-> headings.h2],
     h3 |-> [count |-> Len(headings.h3), content |-> headings.h3],
     h4 |-> [count |-> Len(headings.h4), content |-> headings.h4],
     h5 |-> [count |-> Len(headings.h5), content |-> headings.h5],
     h6 |-> [count |-> Len(headings.h6), content |-> headings.h6]]

AnalyzeH1CountResult(a, headings) ==
    LET h1_count == Len(headings.h1)
    IN  IF h1_count = 0
        THEN Failed(a, Fmt("H1 tag missing", "", 0), Fmt("Add one H1 tag to the page", "", 0))
        ELSE IF h1_count > 1
        THEN Failed(a, Fmt("Multiple H1 tags ({} count)", "", h1_count),
                    Fmt("Page should have only one H1 tag", "", 0))
        ELSE Passed(a)

\* faulty variant of AnalyzeHierarchyResult: the hierarchy check is skipped on a
\* page without headings
AnalyzeHierarchyResult_SkippedWithoutHeadings(a, headings) ==
    IF \A k \in DOMAIN headings : headings[k] = <<>>
    THEN a
    ELSE IF CheckHeadingHierarchy(headings)
    THEN Passed(a)
    ELSE Failed(a, Fmt("Heading hierarchy broken", "", 0),
                Fmt("Use heading tags in logical hierarchy (H1->H2->H3...)", "", 0))

\* lines 155-160: the hierarchy check, always counted
AnalyzeHierarchyResult(a, headings) ==
    IF CheckHeadingHierarchy(headings)
    THEN Passed(a)
    ELSE Failed(a, Fmt("Heading hierarchy broken", "", 0),
                Fmt("Use heading tags in logical hierarchy (H1->H2->H3...)", "", 0))

\* faulty variant of AnalyzeHeadingsResult: the hierarchy check only runs when
\* the H1 count check passed
AnalyzeHeadingsResult_StopAtH1(a, headings) ==
    LET b == AnalyzeH1CountResult(WithDetail(a, "headings", HeadingsInfo(headings)), headings)
    IN  IF Len(headings.h1) # 1 THEN b ELSE AnalyzeHierarchyResult(b, headings)

AnalyzeHeadingsResult(a, headings) ==
    AnalyzeHierarchyResult(
        AnalyzeH1CountResult(WithDetail(a, "headings", HeadingsInfo(headings)), headings),
        headings)

AnalyzeHeadings ==
    /\ pc = "headings"
    /\ analysis' = AnalyzeHeadingsResult(analysis, crawl_data.headings)
    /\ pc' = "images"
    /\ UNCHANGED <<crawl_data, result, callVars, notAnalyzer>>

\* faulty variant of ImagesWithAlt: a white-space alt counts as alt text
ImagesWithAlt_NoStrip(images) ==
    Cardinality({i \in 1..Len(images) : images[i].alt # <<>>})

\* the number of images whose alt.strip() is not empty
ImagesWithAlt(images) == Cardinality({i \in 1..Len(images) : Strip(images[i].alt) # <<>>})

\* images_with_alt / len(images) < seo_rules['image_alt_ratio']['min'].  The
\* float quotient equals the float 0.8 exactly when the ratio is 4/5 and
\* otherwise lies on the side of 0.8 the exact ratio lies on.
AltRatioTooLow(with_alt, total) == 100 * with_alt < seo_rules.image_alt_ratio.min * total

\* faulty variant of ImagesSkipped: a page without images fails the check
ImagesSkipped_Counted(a) ==
    Failed(WithDetail(a, "images", [total |-> 0, with_alt |-> 0, without_alt |-> 0]),
           Fmt("{} images missing alt text", "", 0),
           Fmt("Add descriptive alt text to all images", "", 0))

\* the early return of _analyze_images on a page without images
ImagesSkipped(a) ==
    WithDetail(a, "images", [total |-> 0, with_alt |-> 0, without_alt |-> 0])

\* SEOAnalyzer._analyze_images
AnalyzeImagesResult(a, images) ==
    IF images = <<>>
    THEN ImagesSkipped(a)
    ELSE LET images_with_alt == ImagesWithAlt(images)
             images_without_alt == Len(images) - images_with_alt
             info == [total |-> Len(images), with_alt |-> images_with_alt,
                      without_alt |-> images_without_alt,
                      alt_ratio |-> RoundHalfEven(100 * images_with_alt, Len(images))]
         IN  IF AltRatioTooLow(images_with_alt, Len(images))
             THEN WithDetail(Failed(a, Fmt("{} images missing alt text", "", images_without_alt),
                                    Fmt("Add descriptive alt text to all images", "", 0)),
                             "images", info)
             ELSE WithDetail(Passed(a), "images", info)

AnalyzeImages ==
    /\ pc = "images"
    /\ analysis' = AnalyzeImagesResult(analysis, crawl_data.images)
    /\ pc' = "paragraphs"
    /\ UNCHANGED <<crawl_data, result, callVars, notAnalyzer>>

\* faulty variant of AvgWordsEnough: every paragraph must reach the minimum
AvgWordsEnough_ShortestParagraph(word_counts) ==
    \A i \in 1..Len(word_counts) : word_counts[i] >= seo_rules.paragraph_min_words

\* avg_words >= seo_rules['paragraph_min_words'], with avg_words the float
\* sum(word_counts) / len(word_counts), which is below 20 exactly when the
\* exact quotient is
AvgWordsEnough(word_counts) ==
    SumSeq(word_counts) >= seo_rules.paragraph_min_words * Len(word_counts)

\* SEOAnalyzer._analyze_paragraphs
AnalyzeParagraphsResult(a, paragraphs) ==
    IF paragraphs = <<>>
    THEN WithDetail(a, "paragraphs", [total |-> 0, average_words |-> 0])
    ELSE LET word_counts == [i \in 1..Len(paragraphs) |-> SplitLen(paragraphs[i])]
             sum == SumSeq(word_counts)
             n == Len(word_counts)
             info == [total |-> n, average_words |-> FormatTenths(sum, n),
                      short_paragraphs |->
                          Cardinality({i \in 1..n :
                              word_counts[i] < seo_rules.paragraph_min_words})]
         IN  IF AvgWordsEnough(word_counts)
             THEN WithDetail(Passed(a), "paragraphs", info)
             ELSE WithDetail(Failed(a, Fmt("Paragraphs too short (average {} words)", "",
                                           FormatTenths(sum, n)),
                                    Fmt("Paragraphs should contain at least {} words", "",
                                        seo_rules.paragraph_min_words)),
                             "paragraphs", info)

AnalyzeParagraphs ==
    /\ pc = "paragraphs"
    /\ analysis' = AnalyzeParagraphsResult(analysis, crawl_data.paragraphs)
    /\ pc' = "keywords"
    /\ UNCHANGED <<crawl_data, result, callVars, notAnalyzer>>

\* faulty variant of TopTen: the list is not cut to ten keywords
TopTen_All(keywords) == keywords

\* keywords[:10]
TopTen(keywords) ==
    SubSeq(keywords, 1, IF Len(keywords) < TopKeywordCount THEN Len(keywords)
                        ELSE TopKeywordCount)

\* faulty variant of TooDense: a density of up to 5% accepted
TooDense_AboveFive(keyword_data) == keyword_data.percentage > 500

\* density > seo_rules['keyword_density']['max']
TooDense(keyword_data) == keyword_data.percentage > seo_rules.keyword_density.max

\* the density_issues list: one string per too dense keyword, in list order
DensityIssues(top_keywords) ==
    LET dense == SelectSeq(top_keywords, TooDense)
    IN  [i \in 1..Len(dense) |->
            Fmt("\"{}\" keyword too dense ({}%)", dense[i].word, dense[i].percentage)]

\* faulty variant of AnalyzeKeywordsResult: one recommendation per too dense
\* keyword
AnalyzeKeywordsResult_RecommendationEach(a, keywords) ==
    IF keywords = <<>>
    THEN WithDetail(a, "keywords", [top_keywords |-> <<>>, density_issues |-> <<>>])
    ELSE LET top_keywords == TopTen(keywords)
             density_issues == DensityIssues(top_keywords)
             info == [top_keywords |-> top_keywords, density_issues |-> density_issues]
         IN  IF density_issues = <<>>
             THEN WithDetail(Passed(a), "keywords", info)
             ELSE WithDetail(
                      [a EXCEPT !.total_checks = @ + 1,
                                !.issues = @ \o density_issues,
                                !.recommendations =
                                    @ \o [i \in 1..Len(density_issues) |->
                                              Fmt("Keep keyword density between 1-3%", "", 0)]],
                      "keywords", info)

\* SEOAnalyzer._analyze_keywords
AnalyzeKeywordsResult(a, keywords) ==
    IF keywords = <<>>
    THEN WithDetail(a, "keywords", [top_keywords |-> <<>>, density_issues |-> <<>>])
    ELSE LET top_keywords == TopTen(keywords)
             density_issues == DensityIssues(top_keywords)
             info == [top_keywords |-> top_keywords, density_issues |-> density_issues]
         IN  IF density_issues = <<>>
             THEN WithDetail(Passed(a), "keywords", info)
             ELSE WithDetail(
                      [a EXCEPT !.total_checks = @ + 1,
                                !.issues = @ \o density_issues,
                                !.recommendations =
                                    Append(@, Fmt("Keep keyword density between 1-3%", "", 0))],
                      "keywords", info)

AnalyzeKeywords ==
    /\ pc = "keywords"
    /\ analysis' = AnalyzeKeywordsResult(analysis, crawl_data.keywords)
    /\ pc' = "links"
    /\ UNCHANGED <<crawl_data, result, callVars, notAnalyzer>>

\* the links with a non-empty href whose domain is (internal) or is not
\* (external) the domain of the page
InternalLinks(links, url) ==
    LET base_domain == ExtractDomain(url)
        IsInternal(link) == link.href # <<>> /\ ExtractDomain(link.href) = base_domain
    IN  SelectSeq(links, IsInternal)

ExternalLinks(links, url) ==
    LET base_domain == ExtractDomain(url)
        IsExternal(link) == link.href # <<>> /\ ExtractDomain(link.href) # base_domain
    IN  SelectSeq(links, IsExternal)

\* SEOAnalyzer._analyze_links
AnalyzeLinksResult(a, links, url) ==
    IF links = <<>>
    THEN WithDetail(a, "links", [total |-> 0, internal |-> 0, external |-> 0])
    ELSE LET internal_links == InternalLinks(links, url)
             external_links == ExternalLinks(links, url)
             info == [total |-> Len(links), internal |-> Len(internal_links),
                      external |-> Len(external_links)]
         IN  IF Len(internal_links) >= seo_rules.internal_links_min
             THEN WithDetail(Passed(a), "links", info)
             ELSE WithDetail(Failed(a, Fmt("Internal links count low ({} count)", "",
                                           Len(internal_links)),
                                    Fmt("Add at least {} internal links", "",
                                        seo_rules.internal_links_min)),
                             "links", info)

AnalyzeLinks ==
    /\ pc = "links"
    /\ analysis' = AnalyzeLinksResult(analysis, crawl_data.links, crawl_data.url)
    /\ pc' = "content_length"
    /\ UNCHANGED <<crawl_data, result, callVars, notAnalyzer>>

\* SEOAnalyzer._analyze_content_length
AnalyzeContentLengthResult(a, word_count) ==
    LET info == [word_count |-> word_count,
                 status |-> IF word_count < ContentMinWords THEN "short"
                            ELSE IF word_count < ContentLongWords THEN "adequate"
                            ELSE "long"]
    IN  IF word_count >= ContentMinWords
        THEN WithDetail(Passed(a), "content", info)
        ELSE WithDetail(Failed(a, Fmt("Content too short ({} words)", "", word_count),
                               Fmt("Expand content to at least 300 words", "", 0)),
                        "content", info)

AnalyzeContentLength ==
    /\ pc = "content_length"
    /\ analysis' = AnalyzeContentLengthResult(analysis, crawl_data.word_count)
    /\ pc' = "score"
    /\ UNCHANGED <<crawl_data, result, callVars, notAnalyzer>>

\* lines 67-72: the score, and the return of the accumulator
SeoScore(a) ==
    IF a.total_checks > 0 THEN PyRoundPercent(a.passed_checks, a.total_checks)
    ELSE a.seo_score

AnalyzeSeoScore ==
    /\ pc = "score"
    /\ analysis' = [analysis EXCEPT !.seo_score = SeoScore(analysis)]
    /\ result' = analysis'
    /\ calls' = [calls EXCEPT ![Len(calls)] =
                     Call(@.given, @.refs, TRUE, result')]
    /\ pc' = "done"
    /\ UNCHANGED <<crawl_data, objects, notAnalyzer>>

-----------------------------------------------------------------------------
(* The report generators (seo_analyzer.py lines 319-596).  A report is the *)
(* list of lines that "\n".join makes the returned string of, kept section *)
(* by section; a line is an f-string: its template and the values          *)
(* interpolated.  The pictograph that starts a section heading is left out *)
(* of the templates.                                                       *)

ReportKeywordLimit == 20    \* keywords[:20]

Line(tmpl, args) == [tmpl |-> tmpl, args |-> args]

Blank == Line("", <<>>)

\* dict.get(k, default)
Get(d, k, default) == IF k \in DOMAIN d THEN d[k] ELSE default

\* needle in hay
Contains(hay, needle) ==
    \E i \in 1..(Len(hay) - Len(needle) + 1) :
        SubSeq(hay, i, i + Len(needle) - 1) = needle

\* the characters of the keyword named word: those of the two keywords of
\* two words, else 'w' and the two-digit rank
Letters(word) ==
    LET Digits == <<"0", "1", "2", "3", "4", "5", "6", "7", "8", "9">>
        i == CHOOSE j \in 1..(ExtractTopN + 1) : Word(j) = word
    IN  IF word = "long tail" THEN <<"l", "o", "n", "g", " ", "t", "a", "i", "l">>
        ELSE IF word = "seo tips" THEN <<"s", "e", "o", " ", "t", "i", "p", "s">>
        ELSE <<"w", Digits[(i \div 10) + 1], Digits[(i % 10) + 1]>>

\* line 329
ReportStatus(seo_score) ==
    IF seo_score >= 90 THEN "Excellent"
    ELSE IF seo_score >= 70 THEN "Good"
    ELSE IF seo_score >= 50 THEN "Fair"
    ELSE "Poor"

\* faulty variant of KeywordReportStatus: a score of 50 is Poor
KeywordReportStatus_FairAbove50(seo_score) ==
    IF seo_score >= 90 THEN "Excellent"
    ELSE IF seo_score >= 70 THEN "Good"
    ELSE IF seo_score > 50 THEN "Fair"
    ELSE "Poor"

\* line 459
KeywordReportStatus(seo_score) ==
    IF seo_score >= 90 THEN "Excellent"
    ELSE IF seo_score >= 70 THEN "Good"
    ELSE IF seo_score >= 50 THEN "Fair"
    ELSE "Poor"

\* lines 325-331 and 455-461
ReportHeader(a, status) ==
    <<Line("SEO Technical Audit Report", <<>>),
      Line("========================================", <<>>),
      Line("URL: {}", <<a.url>>),
      Line("SEO Score: {}/100", <<a.seo_score>>),
      Line("Status: {}", <<status>>),
      Blank>>

\* lines 337-342 and 484-489
AuditSummary(a) ==
    <<Line("AUDIT SUMMARY:", <<>>),
      Line("- Total Checks Performed: {}", <<a.total_checks>>),
      Line("- Passed Tests: {}", <<a.passed_checks>>),
      Line("- Failed Tests: {}", <<a.total_checks - a.passed_checks>>),
      Line("- Warnings: 0", <<>>),
      Blank>>

\* lines 344-348
IssueBullets(a) ==
    IF a.issues = <<>> THEN <<>>
    ELSE <<Line("SEO ISSUES FOUND (Each as individual bullet):", <<>>)>>
         \o [i \in 1..Len(a.issues) |-> Line("* {}", <<a.issues[i]>>)]
         \o <<Blank>>

\* lines 411-421 of _generate_passed_tests
PassedTitleTests(details) ==
    (IF "title" \in DOMAIN details /\ Get(details["title"], "status", None) = "optimal"
     THEN <<Line("Title tag length optimal ({} characters) - Within recommended 30-60 character range",
                 <<Get(details["title"], "length", 0)>>)>>
     ELSE <<>>)
    \o (IF "meta_description" \in DOMAIN details
           /\ Get(details["meta_description"], "status", None) = "optimal"
        THEN <<Line("Meta description length appropriate ({} characters) - Within 120-160 character range",
                    <<Get(details["meta_description"], "length", 0)>>)>>
        ELSE <<>>)

\* lines 423-430
PassedHeadingTests(details) ==
    IF "headings" \notin DOMAIN details THEN <<>>
    ELSE (IF details["headings"].h1.count = 1
          THEN <<Line("Single H1 tag present - Optimal page structure maintained", <<>>)>>
          ELSE <<>>)
         \o (IF Len(details["headings"].h1.content) > 0
             THEN <<Line("H1 tag contains content - Good for topical relevance", <<>>)>>
             ELSE <<>>)

\* line 434 reads img_info['alt_ratio'], a key the entry of a page without
\* images does not have: KeyError
PassedTestsRaise(details) ==
    "images" \in DOMAIN details /\ "alt_ratio" \notin DOMAIN details["images"]

\* lines 432-435, for an entry that has the key
PassedImageTests(details) ==
    IF "images" \notin DOMAIN details THEN <<>>
    ELSE IF details["images"].alt_ratio >= seo_rules.image_alt_ratio.min
    THEN <<Line("Images with alt text ({} out of {}) - Meets accessibility and SEO requirements",
                <<details["images"].with_alt, details["images"].total>>)>>
    ELSE <<>>

\* lines 437-445
PassedContentTests(details) ==
    (IF "content" \in DOMAIN details /\ details["content"].word_count >= ContentMinWords
     THEN <<Line("Content length sufficient ({} words) - Meets minimum content requirements",
                 <<details["content"].word_count>>)>>
     ELSE <<>>)
    \o (IF "links" \in DOMAIN details
           /\ details["links"].internal >= seo_rules.internal_links_min
        THEN <<Line("Internal links present ({} found) - Supports site navigation and SEO",
                    <<details["links"].internal>>)>>
        ELSE <<>>)

\* SEOAnalyzer._generate_passed_tests when it does not raise
GeneratePassedTests(a) ==
    PassedTitleTests(a.details) \o PassedHeadingTests(a.details)
        \o PassedImageTests(a.details) \o PassedContentTests(a.details)

\* lines 350-355 and 498-503
PassedBullets(a) ==
    LET passed_tests == GeneratePassedTests(a)
    IN  IF passed_tests = <<>> THEN <<>>
        ELSE <<Line("PASSED SEO TESTS (Each as individual bullet):", <<>>)>>
             \o [i \in 1..Len(passed_tests) |-> Line("* {}", <<passed_tests[i]>>)]
             \o <<Blank>>

\* faulty variant of Priority: the fourth recommendation is already LOW
Priority_MediumBelow4(i) ==
    IF i <= 2 THEN "HIGH PRIORITY" ELSE IF i < 4 THEN "MEDIUM PRIORITY" ELSE "LOW PRIORITY"

\* lines 360 and 508
Priority(i) ==
    IF i <= 2 THEN "HIGH PRIORITY" ELSE IF i <= 4 THEN "MEDIUM PRIORITY" ELSE "LOW PRIORITY"

\* lines 357-362
RecommendationBullets(a) ==
    IF a.recommendations = <<>> THEN <<>>
    ELSE <<Line("OPTIMIZATION RECOMMENDATIONS (Prioritized):", <<>>)>>
         \o [i \in 1..Len(a.recommendations) |->
                Line("* {}: {}", <<Priority(i), a.recommendations[i]>>)]
         \o <<Blank>>

\* "Present" if info.get('content') else "Missing"
Presence(info) == IF Truthy(Get(info, "content", None)) THEN "Present" ELSE "Missing"

\* lines 379-400 and 531-550: headings, images, links, content
TechnicalCounts(details) ==
    (IF "headings" \in DOMAIN details
     THEN LET h == details["headings"]
          IN  <<IF h.h1.count = 1
                THEN Line("- H1 Tags: {} count - Optimal: 1", <<h.h1.count>>)
                ELSE Line("- H1 Tags: {} count - Issue: {}", <<h.h1.count, h.h1.count>>),
                Line("- H2-H6 Tags: H2({}), H3({}), H4({}), H5({}), H6({})",
                     <<h.h2.count, h.h3.count, h.h4.count, h.h5.count, h.h6.count>>)>>
     ELSE <<>>)
    \o (IF "images" \in DOMAIN details
        THEN LET img_info == details["images"]
                 coverage == IF img_info.total > 0
                             THEN RoundHalfEven(1000 * img_info.with_alt, img_info.total)
                             ELSE 0
             IN  <<Line("- Images: {} total, {} with alt text ({}% coverage)",
                        <<img_info.total, img_info.with_alt, coverage>>)>>
        ELSE <<>>)
    \o (IF "links" \in DOMAIN details
        THEN <<Line("- Internal Links: {} count - {}",
                    <<details["links"].internal,
                      IF details["links"].internal >= 3 THEN "Sufficient: 3+"
                      ELSE "Insufficient: <3">>)>>
        ELSE <<>>)
    \o (IF "content" \in DOMAIN details
        THEN <<Line("- Content Length: {} words - {}",
                    <<details["content"].word_count,
                      IF details["content"].word_count >= ContentMinWords
                      THEN "Sufficient: 300+" ELSE "Short: <300">>)>>
        ELSE <<>>)

\* lines 364-402
TechnicalDetails(details) ==
    <<Line("TECHNICAL DETAILS:", <<>>)>>
    \o (IF "title" \in DOMAIN details
        THEN <<Line("- Title: {} - {} characters - {} primary keyword",
                    <<Presence(details["title"]), Get(details["title"], "length", 0),
                      IF Truthy(Get(details["title"], "content", None))
                      THEN "Contains" ELSE "Missing">>)>>
        ELSE <<>>)
    \o (IF "meta_description" \in DOMAIN details
        THEN <<Line("- Meta Description: {} - {} characters - {} primary keyword",
                    <<Presence(details["meta_description"]),
                      Get(details["meta_description"], "length", 0),
                      IF Truthy(Get(details["meta_description"], "content", None))
                      THEN "Contains" ELSE "Missing">>)>>
        ELSE <<>>)
    \o TechnicalCounts(details)

\* lines 321-322 and 451-452
ErrorReport(a) ==
    Report("error", <<Line("Error: {}", <<a.error>>)>>,
           <<>>, <<>>, <<>>, <<>>, <<>>, <<>>, "")

\* SEOAnalyzer.generate_seo_report
GenerateSeoReportResult(a) ==
    IF "error" \in DOMAIN a THEN ErrorReport(a)
    ELSE LET header == ReportHeader(a, ReportStatus(a.seo_score))
             keyword_lines == <<Line("KEYWORDS ANALYSIS (MANDATORY):", <<>>),
                                Line("(Keywords will be extracted from crawl data)", <<>>),
                                Blank>>
         IN  IF PassedTestsRaise(a.details)
             THEN Report("raised", header, keyword_lines, AuditSummary(a), IssueBullets(a),
                         <<>>, <<>>, <<>>, "KeyError: 'alt_ratio'")
             ELSE Report("report", header, keyword_lines, AuditSummary(a), IssueBullets(a),
                         PassedBullets(a), RecommendationBullets(a),
                         TechnicalDetails(a.details), "")

\* faulty variant of KeywordType: a keyword of several words is Long-tail
\* at every rank after the first
KeywordType_LongTailFirst(i, word) ==
    IF i = 1 THEN "Primary"
    ELSE IF SplitLen(Letters(word)) > 1 THEN "Long-tail"
    ELSE IF i <= 5 THEN "Secondary"
    ELSE "Supporting"

\* lines 469-476
KeywordType(i, word) ==
    IF i = 1 THEN "Primary"
    ELSE IF i <= 5 THEN "Secondary"
    ELSE IF SplitLen(Letters(word)) > 1 THEN "Long-tail"
    ELSE "Supporting"

\* lines 463-482
KeywordLines(kws) ==
    <<Line("KEYWORDS ANALYSIS (MANDATORY):", <<>>)>>
    \o (IF kws # <<>>
        THEN [i \in 1..(IF Len(kws) < ReportKeywordLimit THEN Len(kws)
                        ELSE ReportKeywordLimit) |->
                 Line("{}. {}: {} occurrences ({}% density) - {}",
                      <<i, kws[i].word, kws[i].count, kws[i].percentage,
                        KeywordType(i, kws[i].word)>>)]
        ELSE <<Line("No keywords extracted from content", <<>>)>>)
    \o <<Blank>>

\* keywords[0]['word'] if keywords else the default
PrimaryKeyword(kws, default) == IF kws # <<>> THEN kws[1].word ELSE default

SecondaryKeyword(kws, default) == IF Len(kws) > 1 THEN kws[2].word ELSE default

\* SEOAnalyzer._enhance_issue_description.  Which branch an issue takes is
\* decided by words of its text; of the issues analyze_seo writes, 'H1 tag
\* missing', 'Title too short', 'Meta description missing' and 'images
\* missing alt text' take one ('keyword too dense' does not contain
\* 'density', and the keywords w01 .. w21 contain none of the words).
EnhanceIssueDescription(issue, kws) ==
    LET primary_keyword == PrimaryKeyword(kws, "primary keyword")
    IN  IF issue.tmpl = "H1 tag missing"
        THEN Line("Missing H1 tag - Critical SEO issue affecting page hierarchy, should contain primary keyword \"{}\"",
                  <<primary_keyword>>)
        ELSE IF issue.tmpl = "Title too short ({} characters)"
        THEN Line("{} - Should be 30-60 characters for optimal SERP display and include \"{}\"",
                  <<issue, primary_keyword>>)
        ELSE IF issue.tmpl = "Meta description missing"
        THEN Line("Meta description missing - Required for search engine result snippets, should include \"{}\"",
                  <<primary_keyword>>)
        ELSE IF issue.tmpl = "{} images missing alt text"
        THEN Line("{} - Impacts accessibility and SEO, consider using relevant keywords in alt text",
                  <<issue>>)
        ELSE Line("{}", <<issue>>)

\* SEOAnalyzer._enhance_recommendation: of the recommendations analyze_seo
\* writes, the three about the meta description, the one about alt text
\* and 'Expand content ...' are replaced ('Add one H1 tag' has no 'add')
EnhanceRecommendation(recommendation, kws) ==
    LET primary_keyword == PrimaryKeyword(kws, "primary keyword")
        secondary_keyword == SecondaryKeyword(kws, "secondary keyword")
    IN  IF recommendation.tmpl \in {"Add meta description to the page",
                                    "Meta description should be at least {} characters",
                                    "Meta description should be at most {} characters"}
        THEN Line("Write meta description (120-160 characters) including primary keyword \"{}\" and compelling CTA",
                  <<primary_keyword>>)
        ELSE IF recommendation.tmpl = "Add descriptive alt text to all images"
        THEN Line("Add alt text to images using relevant keywords like \"{}\" and \"{}\" where contextually appropriate",
                  <<primary_keyword, secondary_keyword>>)
        ELSE IF recommendation.tmpl = "Expand content to at least 300 words"
        THEN Line("Expand content by 100-200 words focusing on \"{}\" and related terms for better topical coverage",
                  <<primary_keyword>>)
        ELSE Line("{}", <<recommendation>>)

\* lines 491-496
EnhancedIssueBullets(a, kws) ==
    IF a.issues = <<>> THEN <<>>
    ELSE <<Line("SEO ISSUES FOUND (Each as individual bullet):", <<>>)>>
         \o [i \in 1..Len(a.issues) |->
                Line("* {}", <<EnhanceIssueDescription(a.issues[i], kws)>>)]
         \o <<Blank>>

\* lines 505-511
EnhancedRecommendationBullets(a, kws) ==
    IF a.recommendations = <<>> THEN <<>>
    ELSE <<Line("OPTIMIZATION RECOMMENDATIONS (Prioritized):", <<>>)>>
         \o [i \in 1..Len(a.recommendations) |->
                Line("* {}: {}",
                     <<Priority(i), EnhanceRecommendation(a.recommendations[i], kws)>>)]
         \o <<Blank>>

\* "Contains" if the primary keyword is in the content, both lower-cased
KeywordStatus(info, kws) ==
    LET primary_keyword == PrimaryKeyword(kws, "")
        content == Get(info, "content", None)
    IN  IF primary_keyword # "" /\ Truthy(content)
           /\ Contains(Lower(content), Lower(Letters(primary_keyword)))
        THEN "Contains" ELSE "Missing"

\* lines 513-561
KeywordTechnicalDetails(details, kws) ==
    <<Line("TECHNICAL DETAILS:", <<>>)>>
    \o (IF "title" \in DOMAIN details
        THEN <<Line("- Title: {} - {} characters - {} primary keyword \"{}\"",
                    <<Presence(details["title"]), Get(details["title"], "length", 0),
                      KeywordStatus(details["title"], kws), PrimaryKeyword(kws, "")>>)>>
        ELSE <<>>)
    \o (IF "meta_description" \in DOMAIN details
        THEN <<Line("- Meta Description: {} - {} characters - {} primary keyword \"{}\"",
                    <<Presence(details["meta_description"]),
                      Get(details["meta_description"], "length", 0),
                      KeywordStatus(details["meta_description"], kws),
                      PrimaryKeyword(kws, "")>>)>>
        ELSE <<>>)
    \o TechnicalCounts(details)
    \o (IF kws = <<>> THEN <<>>
        ELSE IF Len(kws) > 1
        THEN <<Line("- Keyword Density: Primary \"{}\" ({}%), Secondary \"{}\" ({}%)",
                    <<kws[1].word, kws[1].percentage, kws[2].word, kws[2].percentage>>)>>
        ELSE <<Line("- Keyword Density: Primary \"{}\" ({}%)",
                    <<kws[1].word, kws[1].percentage>>)>>)

\* SEOAnalyzer.generate_seo_report_with_keywords
GenerateSeoReportWithKeywordsResult(a, kws) ==
    IF "error" \in DOMAIN a THEN ErrorReport(a)
    ELSE LET header == ReportHeader(a, KeywordReportStatus(a.seo_score))
         IN  IF PassedTestsRaise(a.details)
             THEN Report("raised", header, KeywordLines(kws), AuditSummary(a),
                         EnhancedIssueBullets(a, kws), <<>>, <<>>, <<>>,
                         "KeyError: 'alt_ratio'")
             ELSE Report("report", header, KeywordLines(kws), AuditSummary(a),
                         EnhancedIssueBullets(a, kws), PassedBullets(a),
                         EnhancedRecommendationBullets(a, kws),
                         KeywordTechnicalDetails(a.details, kws), "")

\* the caller passes the analysis that analyze_seo returned
GenerateSeoReport ==
    /\ pc = "done"
    /\ report.kind = "none"
    /\ report' = GenerateSeoReportResult(result)
    /\ UNCHANGED <<analyzerVars, pc, keywordVars, callVars, report_kw, toolVars, serverVars>>

\* the caller passes the analysis and the keywords of the crawl data, as
\* analyze_webpage_seo does: crawl_data.get('keywords', [])
GenerateSeoReportWithKeywords ==
    /\ pc = "done"
    /\ report_kw.kind = "none"
    /\ report_kw' = GenerateSeoReportWithKeywordsResult(result, Get(crawl_data, "keywords", <<>>))
    /\ UNCHANGED <<analyzerVars, pc, keywordVars, callVars, report, toolVars, serverVars>>

Next ==
    \/ AnalyzeSeoBegin
    \/ AnalyzeTitle
    \/ AnalyzeMetaDescription
    \/ AnalyzeHeadings
    \/ AnalyzeImages
    \/ AnalyzeParagraphs
    \/ AnalyzeKeywords
    \/ AnalyzeLinks
    \/ AnalyzeContentLength
    \/ AnalyzeSeoScore
    \/ GenerateSeoReport
    \/ GenerateSeoReportWithKeywords

Spec == Init /\ [][Next]_vars

-----------------------------------------------------------------------------
(* Several calls of analyze_seo, one after the other, on one analyzer.     *)

MaxCalls == 3

\* a page that fails every check, and a page with nothing on it
BadPage ==
    Page(Str(seo_rules.title_length.min - 1), None, Headings(0, 1, 0, 0, 0),
         Images(3, 1, 1),
         <<Words(seo_rules.paragraph_min_words - 1), Words(seo_rules.paragraph_min_words)>>,
         TopKeywords(Counts(4, 4, ExtractTopN), 100),
         <<[href |-> InternalHref], [href |-> ExternalHref]>>,
         ContentMinWords - 1)

EmptyPage ==
    Page(None, None, Headings(0, 0, 0, 0, 0), Images(0, 0, 0), <<>>, <<>>, <<>>, 0)

RepeatPages ==
    {GoodPage, BadPage, EmptyPage,
     [error |-> "Error fetching web page", url |-> PageUrl, status_code |-> None]}

InitRepeat ==
    /\ crawl_data \in RepeatPages
    /\ analysis = None
    /\ result = None
    /\ pc = "begin"
    /\ soup_text = None /\ min_length = None /\ top_n = None /\ extracted = None
    /\ NoElementCall
    /\ calls = <<>>
    /\ objects = 0
    /\ report = NoReport /\ report_kw = NoReport
    /\ NoToolCall
    /\ NoServer

\* the caller calls analyze_seo again, with the same or other crawl data
CallAgain ==
    /\ pc = "done"
    /\ Len(calls) < MaxCalls
    /\ crawl_data' \in RepeatPages
    /\ analysis' = None
    /\ result' = None
    /\ pc' = "begin"
    /\ report' = NoReport
    /\ report_kw' = NoReport
    /\ UNCHANGED <<callVars, keywordVars, toolVars, serverVars>>

NextRepeat == Next \/ CallAgain

SpecRepeat == InitRepeat /\ [][NextRepeat]_vars

-----------------------------------------------------------------------------
(* extract_keywords (web_crawler.py lines 150-269), run on the words of    *)
(* the page text.  The words are the maximal runs of letters the regular   *)
(* expression of line 169 finds; text.lower() (line 167) is applied to     *)
(* each of them.                                                           *)

MaxTokens == 5      \* the longest page text enumerated word by word
MaxRepeats == 6     \* the longest page text made of runs of repeated words

ExtractMinLength == 3     \* the default of min_length

\* the words of the enumerated page texts
TokenSEO == <<"S", "E", "O">>
TokenSeo == <<"s", "e", "o">>
TokenTesting == <<"t", "e", "s", "t", "i", "n", "g">>
TokenThe == <<"T", "h", "e">>
TokenAb == <<"a", "b">>

Tokens == {TokenSEO, TokenSeo, TokenTesting, TokenThe, TokenAb}

\* a occurrences of 'ab', then b of 'testing', then c of 'seo'
Runs(a, b, c) ==
    [i \in 1..(a + b + c) |->
        IF i <= a THEN TokenAb ELSE IF i <= a + b THEN TokenTesting ELSE TokenSeo]

TextInputs ==
    UNION {[1..n -> Tokens] : n \in 0..MaxTokens}
    \cup {Runs(t[1], t[2], t[3]) :
             t \in {u \in (0..MaxRepeats) \X (0..MaxRepeats) \X (0..MaxRepeats) :
                       u[1] + u[2] + u[3] <= MaxRepeats}}

MinLengthInputs == {ExtractMinLength - 1, ExtractMinLength}

TopNInputs == {0, 1, 2, ExtractTopN}

\* the entries of the set stop_words (lines 173-252) of at most four
\* letters that the letters of the enumerated words can spell; no other
\* entry equals a word of TextInputs
stop_words ==
    {<<"t", "h", "e">>,
     <<"a">>,
     <<"a", "n">>,
     <<"a", "n", "d">>,
     <<"t", "o">>,
     <<"o", "f">>,
     <<"i", "s">>,
     <<"i", "t">>,
     <<"a", "t">>,
     <<"i", "n">>,
     <<"o", "n">>,
     <<"h", "o", "m", "e">>}

\* lines 167-170: the lower-cased words of at least min_len characters
Words_(text, min_len) ==
    SelectSeq([i \in 1..Len(text) |-> Lower(text[i])], LAMBDA w : Len(w) >= min_len)

\* line 254
FilteredWords(text, min_len) ==
    SelectSeq(Words_(text, min_len), LAMBDA w : w \notin stop_words)

\* Counter(ws)[w]
CountOf(ws, w) == Cardinality({i \in 1..Len(ws) : ws[i] = w})

\* the position at which Counter(ws) inserted w
FirstIndex(ws, w) == CHOOSE i \in 1..Len(ws) : ws[i] = w /\ \A j \in 1..(i - 1) : ws[j] # w

\* faulty variant of ComesBefore: among equal counts the later word wins
ComesBefore_LastFirst(ws, v, w) ==
    \/ CountOf(ws, v) > CountOf(ws, w)
    \/ CountOf(ws, v) = CountOf(ws, w) /\ FirstIndex(ws, v) > FirstIndex(ws, w)

\* the order of Counter.most_common: by decreasing count, and (the sort is
\* stable) by insertion order among equal counts
ComesBefore(ws, v, w) ==
    \/ CountOf(ws, v) > CountOf(ws, w)
    \/ CountOf(ws, v) = CountOf(ws, w) /\ FirstIndex(ws, v) < FirstIndex(ws, w)

\* Counter(ws).most_common(n), n >= 0
MostCommon(ws, n) ==
    LET distinct == {ws[i] : i \in 1..Len(ws)}
        Rank(w) == 1 + Cardinality({v \in distinct : ComesBefore(ws, v, w)})
        k == IF n < Cardinality(distinct) THEN n ELSE Cardinality(distinct)
    IN  [i \in 1..k |->
            LET w == CHOOSE v \in distinct : Rank(v) = i
            IN  [word |-> w, count |-> CountOf(ws, w)]]

\* faulty variant of KeywordPercentage: rounded up to the next hundredth
KeywordPercentage_Ceiling(count, total) == (count * 10000 + total - 1) \div total

\* lines 262 and 266: round(count / len(filtered_words) * 100, 2), in
\* hundredths of a percent
KeywordPercentage(count, total) == RoundHalfEven(count * 10000, total)

\* extract_keywords, lines 165-269
ExtractKeywordsResult(text, min_len, n) ==
    LET filtered_words == FilteredWords(text, min_len)
        common == MostCommon(filtered_words, n)
    IN  [i \in 1..Len(common) |->
            [word |-> common[i].word, count |-> common[i].count,
             percentage |-> IF filtered_words # <<>>
                            THEN KeywordPercentage(common[i].count, Len(filtered_words))
                            ELSE 0]]

InitKeywords ==
    /\ soup_text \in TextInputs
    /\ min_length \in MinLengthInputs
    /\ top_n \in TopNInputs
    /\ extracted = None
    /\ NoElementCall
    /\ pc = "extract_keywords"
    /\ crawl_data = None /\ analysis = None /\ result = None
    /\ calls = <<>>
    /\ objects = 0
    /\ report = NoReport /\ report_kw = NoReport
    /\ NoToolCall
    /\ NoServer

ExtractKeywords ==
    /\ pc = "extract_keywords"
    /\ extracted' = ExtractKeywordsResult(soup_text, min_length, top_n)
    /\ pc' = "keywords_extracted"
    /\ UNCHANGED <<soup_text, min_length, top_n, elementVars, analyzerVars, callVars,
                   reportVars, toolVars, serverVars>>

NextKeywords == ExtractKeywords

SpecKeywords == InitKeywords /\ [][NextKeywords]_vars

-----------------------------------------------------------------------------
(* extract_images (web_crawler.py, lines 102-122).                         *)

MaxImgTags == 2     \* img elements in a document

\* a page below the root of the site
DeepUrl == Http \o <<"a", "/", "d", "/", "p">>

\* the base URLs: the URL crawl_webpage was given
BaseUrlInputs == {PageUrl, DeepUrl}

\* the src attribute of an img element: none, empty, relative to the root,
\* relative to the page, relative to the scheme, absolute
SrcInputs ==
    {None, <<>>, <<"/", "i">>, <<"i">>, <<"/", "/", "b", "/", "i">>,
     Http \o <<"b", "/", "i">>}

\* the img elements: their src, and an alt text or none
ImgInputs == {[src |-> src, alt |-> alt] : src \in SrcInputs, alt \in {None, <<"x">>}}

\* tag.get(name, ''): the attribute, '' when the element has none
Attr(value) == IF value = None THEN <<>> ELSE value

\* s.startswith(prefix)
StartsWith(s, prefix) == Len(s) >= Len(prefix) /\ SubSeq(s, 1, Len(prefix)) = prefix

\* urlparse(src).netloc is not empty: '//' and a host follow the scheme, or
\* begin the src
HasNetloc(src) ==
    \/ DomainMatchAt(src, 1)
    \/ StartsWith(src, <<"/", "/">>) /\ Len(src) > 2 /\ src[3] # "/"

\* the path of base up to and with its last '/', '/' when base has no path
BaseDirectory(base) ==
    LET from == Len(Http) + Len(ExtractDomain(base)) + 1
        slashes == {i \in from..Len(base) : base[i] = "/"}
    IN  IF slashes = {} THEN <<"/">>
        ELSE SubSeq(base, from, CHOOSE i \in slashes : \A j \in slashes : j <= i)

\* urljoin(base, src) for an http base and a src without '..', query or
\* fragment
UrlJoin(base, src) ==
    IF HasNetloc(src) /\ ~StartsWith(src, <<"/">>) THEN src
    ELSE IF StartsWith(src, <<"/", "/">>) THEN <<"h", "t", "t", "p", ":">> \o src
    ELSE IF StartsWith(src, <<"/">>) THEN Http \o ExtractDomain(base) \o src
    ELSE Http \o ExtractDomain(base) \o BaseDirectory(base) \o src

\* lines 108-112: the src of the entry
ResolvedSrc(src, base) ==
    IF src # <<>> /\ (StartsWith(src, <<"/">>) \/ ~HasNetloc(src))
    THEN UrlJoin(base, src)
    ELSE src

\* lines 107-120: the entry of one img element
ImageEntry(img, base) ==
    [src |-> ResolvedSrc(Attr(img.src), base), alt |-> Attr(img.alt),
     title |-> <<>>, width |-> <<>>, height |-> <<>>]

\* extract_images: an entry for every img element, in document order
ExtractImagesResult(tags, base) == [i \in 1..Len(tags) |-> ImageEntry(tags[i], base)]

InitImages ==
    /\ img_tags \in UNION {[1..n -> ImgInputs] : n \in 0..MaxImgTags}
    /\ base_url \in BaseUrlInputs
    /\ images_found = None
    /\ NoPositionCall
    /\ pc = "extract_images"
    /\ soup_text = None /\ min_length = None /\ top_n = None /\ extracted = None
    /\ crawl_data = None /\ analysis = None /\ result = None
    /\ calls = <<>>
    /\ objects = 0
    /\ report = NoReport /\ report_kw = NoReport
    /\ NoToolCall
    /\ NoServer

ExtractImages ==
    /\ pc = "extract_images"
    /\ images_found' = ExtractImagesResult(img_tags, base_url)
    /\ pc' = "images_extracted"
    /\ UNCHANGED <<img_tags, base_url, tree, tag, position, soup_text, min_length,
                   top_n, extracted, analyzerVars, callVars, reportVars, toolVars, serverVars>>

NextImages == ExtractImages

SpecImages == InitImages /\ [][NextImages]_vars

-----------------------------------------------------------------------------
(* get_element_position (html_parser.py, lines 260-267).                   *)

MaxNodes == 5       \* the document object and the elements below it

\* the names of the elements of the inventory
TagNames == {"div", "p"}

\* the ancestors of element i, the document object (element 1) last
RECURSIVE Ancestors(_, _)
Ancestors(t, i) ==
    IF t.parent[i] = 0 THEN {} ELSE {t.parent[i]} \cup Ancestors(t, t.parent[i])

\* the parsed documents of n nodes: node 1 is the BeautifulSoup object, the
\* nodes are numbered in document order, so the parent of a node is the
\* node before it or one of that node's ancestors; the elements have no
\* attributes and no text
Trees(n) ==
    {[parent |-> p, name |-> [i \in 1..n |-> IF i = 1 THEN "[document]" ELSE nm[i]]] :
        p \in {q \in [1..n -> 0..(n - 1)] :
                  /\ q[1] = 0
                  /\ \A i \in 2..n :
                        q[i] \in {i - 1} \cup Ancestors([parent |-> q], i - 1)},
        nm \in [2..n -> TagNames]}

\* tag.contents: the children of element i, in document order
Contents(t, i) ==
    LET kids == {j \in DOMAIN t.parent : t.parent[j] = i}
        Rank(j) == Cardinality({k \in kids : k <= j})
    IN  [r \in 1..Cardinality(kids) |-> CHOOSE j \in kids : Rank(j) = r]

\* Tag.__eq__: the same name (and attributes) and pairwise equal contents
RECURSIVE TagEqual(_, _, _)
TagEqual(t, i, j) ==
    /\ t.name[i] = t.name[j]
    /\ Len(Contents(t, i)) = Len(Contents(t, j))
    /\ \A k \in 1..Len(Contents(t, i)) : TagEqual(t, Contents(t, i)[k], Contents(t, j)[k])

\* tag.find_parent().find_all(): every element below the parent, at any
\* depth
FindAll(t, par) == {j \in DOMAIN t.parent : par \in Ancestors(t, j)}

\* faulty variant of FindAll: the children of the parent only
FindAll_ChildrenOnly(t, par) == {j \in DOMAIN t.parent : t.parent[j] = par}

\* all_elements.index(tag) + 1: the index of the first element equal to
\* tag (list.index compares with ==); 0 for a tag without parent, whose
\* list is empty
GetElementPosition(t, i) ==
    IF t.parent[i] = 0 THEN 0
    ELSE LET all_elements == FindAll(t, t.parent[i])
             equal == {j \in all_elements : TagEqual(t, j, i)}
             first == CHOOSE j \in equal : \A k \in equal : j <= k
         IN  Cardinality({j \in all_elements : j <= first})

InitPosition ==
    /\ tree \in UNION {Trees(n) : n \in 1..MaxNodes}
    /\ tag \in DOMAIN tree.parent
    /\ position = None
    /\ pc = "get_element_position"
    /\ img_tags = None /\ base_url = None /\ images_found = None
    /\ soup_text = None /\ min_length = None /\ top_n = None /\ extracted = None
    /\ crawl_data = None /\ analysis = None /\ result = None
    /\ calls = <<>>
    /\ objects = 0
    /\ report = NoReport /\ report_kw = NoReport
    /\ NoToolCall
    /\ NoServer

GetElementPositionCall ==
    /\ pc = "get_element_position"
    /\ position' = GetElementPosition(tree, tag)
    /\ pc' = "position_returned"
    /\ UNCHANGED <<tree, tag, img_tags, base_url, images_found, soup_text, min_length,
                   top_n, extracted, analyzerVars, callVars, reportVars, toolVars, serverVars>>

NextPosition == GetElementPositionCall

SpecPosition == InitPosition /\ [][NextPosition]_vars

-----------------------------------------------------------------------------
(* crawl_webpage (web_crawler.py, lines 25-75) and the tools that call it. *)

\* the tool functions that take the url of a page and crawl it
Tools ==
    {"analyze_webpage_seo", "extract_page_keywords",
     "extract_html_content", "extract_specific_tags"}

\* the caller gave no url argument
Absent == <<"absent">>

\* what a caller passes as url: nothing, None, '' or a url
UrlInputs == {Absent, None, <<>>, PageUrl}

\* the parameter url: str = "" of the four tools
UrlParameter(given) == IF given = Absent THEN <<>> ELSE given

\* extract_page_keywords: keyword_count: int = 20
KeywordCountDefault == 20

\* faulty variant of UrlMissing: only None is rejected
UrlMissing_NoneOnly(url) == url = None

\* `if not url`
UrlMissing(url) == ~Truthy(url)

\* the final status codes a server can answer with: requests follows a
\* redirect that has a Location header, so a 3xx answer is final when it has
\* none (300, 304, a 301 without Location)
StatusCodes == {200, 204, 301, 304, 404, 500}

\* the subclasses of requests.RequestException that requests.get raises
RequestExceptions == {"ConnectTimeout", "ConnectionError"}

MaxScripts == 1     \* script and style elements in a document

\* a parsed document: what the extractors find in it, and its script and
\* style elements
Document(page, scripts) ==
    [title |-> page.title, meta_description |-> page.meta_description,
     headings |-> page.headings, images |-> page.images,
     paragraphs |-> page.paragraphs, links |-> page.links,
     keywords |-> page.keywords, word_count |-> page.word_count,
     scripts |-> scripts]

\* the documents a server can send
Documents ==
    {Document(page, n) : page \in {GoodPage, BadPage, EmptyPage}, n \in 0..MaxScripts}

\* what requests.get(url, headers=headers, timeout=10) does: it raises, or
\* it returns a response; the body of a response is a document the
\* extraction reads, or one that makes BeautifulSoup or an extractor raise
\* (RecursionError on deeply nested markup)
Responses ==
    {[kind |-> "exception", status_code |-> 0, content |-> Document(EmptyPage, 0), error |-> e] :
        e \in RequestExceptions}
    \cup {[kind |-> "response", status_code |-> c, content |-> d, error |-> ""] :
            c \in StatusCodes, d \in Documents}
    \cup {[kind |-> "unparsable", status_code |-> c, content |-> Document(EmptyPage, 0),
           error |-> "RecursionError"] : c \in StatusCodes}

\* response.raise_for_status() raises HTTPError (a RequestException) for a
\* client error or a server error status
RaisesForStatus(code) == 400 <= code /\ code < 600

\* str(HTTPError): '404 Client Error: ... for url: ...'
HTTPErrorText(code, url) ==
    Line(IF code < 500 THEN "{} Client Error: {} for url: {}"
         ELSE "{} Server Error: {} for url: {}", <<code, url>>)

\* str(e) of an exception that has only a message
ExceptionText(e) == Line(e, <<>>)

\* lines 64-75: the dict of an except clause
CrawlError(tmpl, e, url) ==
    [error |-> Line(tmpl, <<e>>), url |-> url, status_code |-> None]

\* str(soup): the markup of the elements of the document
HtmlContent(document) ==
    <<"html", document.title, document.meta_description, document.headings,
      document.images, document.paragraphs, document.links, document.scripts>>

\* soup.get_text(): the words of the document outside its script and style
\* elements
TextContent(document) == Words(document.word_count)

\* extract_keywords, lines 162-163: every script and style element is
\* removed from the document extract_keywords was given
Decompose(document) == [document EXCEPT !.scripts = 0]

\* lines 47-60: the dict of a crawl that succeeded; its entries are
\* evaluated in the order written, html_content, text_content and
\* word_count after extract_keywords
CrawlAnalysis(url, document, code) ==
    LET after == Decompose(document)
    IN  [url |-> url, title |-> document.title,
         meta_description |-> document.meta_description,
         headings |-> document.headings, images |-> document.images,
         paragraphs |-> document.paragraphs, links |-> document.links,
         keywords |-> document.keywords,
         html_content |-> HtmlContent(after),
         text_content |-> TextContent(after),
         word_count |-> SplitLen(TextContent(after)),
         status_code |-> code]

\* the document as crawl_webpage leaves it: not parsed, or parsed and
\* passed to the extractors
SoupAfter(r) ==
    IF r.kind = "response" /\ ~RaisesForStatus(r.status_code)
    THEN Decompose(r.content)
    ELSE None

\* lines 35-75, after requests.get: raise_for_status, the extraction and
\* the two except clauses
CrawlWebpageResult(url, r) ==
    IF r.kind = "exception"
    THEN CrawlError("Error fetching web page: {}", ExceptionText(r.error), url)
    ELSE IF RaisesForStatus(r.status_code)
    THEN CrawlError("Error fetching web page: {}", HTTPErrorText(r.status_code, url), url)
    ELSE IF r.kind = "unparsable"
    THEN CrawlError("Error during analysis: {}", ExceptionText(r.error), url)
    ELSE CrawlAnalysis(url, r.content, r.status_code)

\* what crawl_webpage returns when the fetch or the extraction failed
CrawlErrors ==
    {CrawlWebpageResult(PageUrl, r) :
        r \in {x \in Responses : x.kind # "response" \/ RaisesForStatus(x.status_code)}}

\* 'error' in crawl_data
CrawlFailed(d) == "error" \in DOMAIN d

\* a tool is called with a url, or analyze_seo is called with the error
\* result of a crawl
InitTools ==
    /\ \/ /\ tool \in Tools
          /\ tool_url \in UrlInputs
          /\ pc = "tool_entry"
          /\ crawl_data = None
       \/ /\ tool = "none"
          /\ tool_url = None
          /\ pc = "begin"
          /\ crawl_data \in CrawlErrors
    /\ gets = 0
    /\ response = NoResponse
    /\ tool_result = NotReturned
    /\ soup = None
    /\ analysis = None
    /\ result = None
    /\ soup_text = None /\ min_length = None /\ top_n = None /\ extracted = None
    /\ NoElementCall
    /\ NoServer
    /\ calls = <<>>
    /\ objects = 0
    /\ report = NoReport /\ report_kw = NoReport

\* the first statement of the four tools (agent.py lines 35-39 and 108-112,
\* html_parser.py lines 25-29 and 100-104)
ValidateUrl ==
    /\ pc = "tool_entry"
    /\ IF UrlMissing(UrlParameter(tool_url))
       THEN /\ tool_result' = [status |-> "error",
                               message |-> Line("URL parameter is required", <<>>)]
            /\ pc' = "tool_done"
       ELSE /\ pc' = "crawl"
            /\ UNCHANGED tool_result
    /\ UNCHANGED <<analyzerVars, keywordVars, callVars, reportVars,
                   tool, tool_url, gets, response, soup, serverVars>>

\* crawl_webpage, line 40: the GET request
CrawlGet ==
    /\ pc = "crawl"
    /\ gets' = gets + 1
    /\ response' \in Responses
    /\ pc' = "fetched"
    /\ UNCHANGED <<analyzerVars, keywordVars, callVars, reportVars,
                   tool, tool_url, tool_result, soup, serverVars>>

\* crawl_webpage, lines 41-75: it returns to the tool
CrawlReturn ==
    /\ pc = "fetched"
    /\ crawl_data' = CrawlWebpageResult(UrlParameter(tool_url), response)
    /\ soup' = SoupAfter(response)
    /\ pc' = "crawled"
    /\ UNCHANGED <<analysis, result, keywordVars, callVars, reportVars,
                   tool, tool_url, gets, response, tool_result, serverVars>>

\* the error result of a tool that has its url
ToolError(tmpl, e, url) ==
    [status |-> "error", message |-> Line(tmpl, <<e>>), url |-> url]

\* extract_page_keywords, lines 123-132
PageKeywordsResult(url, d) ==
    LET all == Get(d, "keywords", <<>>)
        keywords == SubSeq(all, 1, IF Len(all) < KeywordCountDefault THEN Len(all)
                                   ELSE KeywordCountDefault)
    IN  [status |-> "success", url |-> url, keywords |-> keywords,
         total_words |-> Get(d, "word_count", 0),
         page_title |-> Get(d, "title", <<>>),
         keyword_summary |-> Line("{} keywords extracted", <<Len(keywords)>>)]

\* extract_html_content and extract_specific_tags: the elements they list
\* are those of BeautifulSoup(crawl_data['html_content'])
HtmlToolResult(url, d) ==
    [status |-> "success", url |-> url, elements |-> d.html_content]

\* faulty variant of ToolAfterCrawl: a crawl that failed is tried a second
\* time
ToolAfterCrawl_Retry ==
    /\ pc = "crawled"
    /\ IF CrawlFailed(crawl_data) /\ gets < 2
       THEN /\ pc' = "crawl"
            /\ UNCHANGED tool_result
       ELSE IF CrawlFailed(crawl_data)
       THEN /\ tool_result' = ToolError("Error crawling web page: {}",
                                        crawl_data.error, UrlParameter(tool_url))
            /\ pc' = "tool_done"
       ELSE IF tool = "analyze_webpage_seo"
       THEN /\ pc' = "begin"
            /\ UNCHANGED tool_result
       ELSE /\ tool_result' = IF tool = "extract_page_keywords"
                              THEN PageKeywordsResult(UrlParameter(tool_url), crawl_data)
                              ELSE HtmlToolResult(UrlParameter(tool_url), crawl_data)
            /\ pc' = "tool_done"
    /\ UNCHANGED <<analyzerVars, keywordVars, callVars, reportVars,
                   tool, tool_url, gets, response, soup, serverVars>>

\* the statements after the call of crawl_webpage: the error short cut
\* (agent.py lines 44-49 and 116-121, html_parser.py lines 34-39 and
\* 111-116); else analyze_webpage_seo creates an SEOAnalyzer and calls
\* analyze_seo, and the other tools build their result
ToolAfterCrawl ==
    /\ pc = "crawled"
    /\ IF CrawlFailed(crawl_data)
       THEN /\ tool_result' = ToolError("Error crawling web page: {}",
                                        crawl_data.error, UrlParameter(tool_url))
            /\ pc' = "tool_done"
       ELSE IF tool = "analyze_webpage_seo"
       THEN /\ pc' = "begin"
            /\ UNCHANGED tool_result
       ELSE /\ tool_result' = IF tool = "extract_page_keywords"
                              THEN PageKeywordsResult(UrlParameter(tool_url), crawl_data)
                              ELSE HtmlToolResult(UrlParameter(tool_url), crawl_data)
            /\ pc' = "tool_done"
    /\ UNCHANGED <<analyzerVars, keywordVars, callVars, reportVars,
                   tool, tool_url, gets, response, soup, serverVars>>

\* analyze_webpage_seo, lines 56-79
SeoToolResult(url, d, a, detailed_report) ==
    LET keywords == Get(d, "keywords", <<>>)
        headings == Get(d, "headings", Headings(0, 0, 0, 0, 0))
    IN  [status |-> "success", url |-> url,
         seo_score |-> Get(a, "seo_score", 0),
         total_checks |-> Get(a, "total_checks", 0),
         passed_checks |-> Get(a, "passed_checks", 0),
         issues |-> Get(a, "issues", <<>>),
         recommendations |-> Get(a, "recommendations", <<>>),
         keywords |-> SubSeq(keywords, 1, IF Len(keywords) < ReportKeywordLimit
                                          THEN Len(keywords) ELSE ReportKeywordLimit),
         detailed_report |-> detailed_report,
         page_info |->
            [title |-> Get(d, "title", None),
             meta_description |-> Get(d, "meta_description", None),
             word_count |-> Get(d, "word_count", 0),
             headings_count |->
                [h1 |-> Len(headings.h1), h2 |-> Len(headings.h2),
                 h3 |-> Len(headings.h3), h4 |-> Len(headings.h4)],
             images_total |-> Len(Get(d, "images", <<>>)),
             images_with_alt |-> ImagesWithAlt(Get(d, "images", <<>>))]]

\* analyze_webpage_seo, lines 54-88, after generate_seo_report_with_keywords:
\* the result, or the except clause when the report generator raised
ToolReturn ==
    /\ tool = "analyze_webpage_seo"
    /\ pc = "done"
    /\ report_kw.kind # "none"
    /\ tool_result' =
          IF report_kw.kind = "raised"
          THEN ToolError("Error during SEO analysis: {}", ExceptionText(report_kw.raised),
                         UrlParameter(tool_url))
          ELSE SeoToolResult(UrlParameter(tool_url), crawl_data, result, report_kw)
    /\ pc' = "tool_done"
    /\ UNCHANGED <<analyzerVars, keywordVars, callVars, reportVars,
                   tool, tool_url, gets, response, soup, serverVars>>

NextTools ==
    \/ ValidateUrl
    \/ CrawlGet
    \/ CrawlReturn
    \/ ToolAfterCrawl
    \/ AnalyzeSeoBegin
    \/ AnalyzeTitle
    \/ AnalyzeMetaDescription
    \/ AnalyzeHeadings
    \/ AnalyzeImages
    \/ AnalyzeParagraphs
    \/ AnalyzeKeywords
    \/ AnalyzeLinks
    \/ AnalyzeContentLength
    \/ AnalyzeSeoScore
    \/ GenerateSeoReportWithKeywords
    \/ ToolReturn

SpecTools == InitTools /\ [][NextTools]_vars

-----------------------------------------------------------------------------
(* The WebSocket server (src/server/main.py).  The event loop runs one      *)
(* coroutine at a time and switches at an await only, so a step of a        *)
(* handler is the code from one await to the next.                          *)

MaxConnections == 2     \* WebSocket connections made to the server
MaxFrames == 2          \* message frames a connection receives

UserIds == {"u1", "u2"}

Connections == 1..MaxConnections

\* no frame is being sent
NoFrame == [author |-> "none", turn_complete |-> FALSE, data |-> ""]

\* the frame of lines 146-151
SystemReply ==
    [author |-> "system", turn_complete |-> TRUE, data |-> "Unsupported mime type: {}"]

\* the frame of lines 165-173
AgentReply(model_text) ==
    [author |-> "agent", turn_complete |-> TRUE, data |-> model_text]

\* a connection that has not been made
NotConnected ==
    [pc |-> "idle", user_id |-> "", session |-> 0, messages |-> <<>>, runs |-> 0,
     pending |-> NoFrame, replies |-> <<>>, ended |-> ""]

InitServer ==
    /\ active_connections = <<>>
    /\ handlers = [c \in Connections |-> NotConnected]
    /\ sessions = 0
    /\ health = NoHealthResponse
    /\ pc = "serving"
    /\ crawl_data = None /\ analysis = None /\ result = None
    /\ soup_text = None /\ min_length = None /\ top_n = None /\ extracted = None
    /\ NoElementCall
    /\ calls = <<>>
    /\ objects = 0
    /\ report = NoReport /\ report_kw = NoReport
    /\ NoToolCall

notServer == <<analyzerVars, pc, keywordVars, callVars, reportVars, toolVars>>

\* lines 185-187: if user_id in active_connections: del
\* active_connections[user_id]
Finally(user_id) ==
    [u \in DOMAIN active_connections \ {user_id} |-> active_connections[u]]

\* the handler of connection c leaves through the finally block
Terminate(c, ended) ==
    /\ active_connections' = Finally(handlers[c].user_id)
    /\ handlers' = [handlers EXCEPT ![c].pc = "closed", ![c].ended = ended,
                                    ![c].pending = NoFrame]

\* lines 125-129: a client connects to /ws/{user_id} and is accepted; the
\* connections are numbered in the order they are made
Accept(c, user_id) ==
    /\ handlers[c].pc = "idle"
    /\ IF c = 1 THEN TRUE ELSE handlers[c - 1].pc # "idle"
    /\ handlers' = [handlers EXCEPT ![c].pc = "start_session", ![c].user_id = user_id]
    /\ UNCHANGED <<active_connections, sessions, health, notServer>>

\* lines 132-136: start_session_for_user returns a new session, the entry
\* of the user is set and the loop entered
StartSession(c) ==
    /\ handlers[c].pc = "start_session"
    /\ sessions' = sessions + 1
    /\ active_connections' =
           (handlers[c].user_id :> [websocket |-> c, session |-> sessions'])
               @@ active_connections
    /\ handlers' = [handlers EXCEPT ![c].pc = "receive", ![c].session = sessions']
    /\ UNCHANGED <<health, notServer>>

\* lines 60-62, 182-187: create_session raises
StartSessionRaises(c) ==
    /\ handlers[c].pc = "start_session"
    /\ Terminate(c, "session_error")
    /\ UNCHANGED <<sessions, health, notServer>>

\* lines 175-177: receive_text raises WebSocketDisconnect
ReceiveDisconnect(c) ==
    /\ handlers[c].pc = "receive"
    /\ Terminate(c, "disconnect")
    /\ UNCHANGED <<sessions, health, notServer>>

\* lines 140-142, 154-155, 178-180: a frame that is not a JSON object (or a
\* binary frame, or a message whose data is not a string) raises in
\* json.loads, message.get or user_text[:80]; except Exception breaks
ReceiveMalformed(c) ==
    /\ handlers[c].pc = "receive"
    /\ Len(handlers[c].messages) < MaxFrames
    /\ active_connections' = Finally(handlers[c].user_id)
    /\ handlers' = [handlers EXCEPT ![c].pc = "closed", ![c].ended = "error",
                                    ![c].messages = Append(@, "malformed")]
    /\ UNCHANGED <<sessions, health, notServer>>

\* lines 144-146: a message of another mime type than text/plain
ReceiveOtherMime(c) ==
    /\ handlers[c].pc = "receive"
    /\ Len(handlers[c].messages) < MaxFrames
    /\ handlers' = [handlers EXCEPT ![c].pc = "send", ![c].pending = SystemReply,
                                    ![c].messages = Append(@, "other")]
    /\ UNCHANGED <<active_connections, sessions, health, notServer>>

\* lines 154-159: a text/plain message
ReceiveText(c) ==
    /\ handlers[c].pc = "receive"
    /\ Len(handlers[c].messages) < MaxFrames
    /\ handlers' = [handlers EXCEPT ![c].pc = "run",
                                    ![c].messages = Append(@, "text")]
    /\ UNCHANGED <<active_connections, sessions, health, notServer>>

\* lines 158-162: _run_single_turn returns the text of the model, or raises
RunSingleTurn(c, raised) ==
    /\ handlers[c].pc = "run"
    /\ handlers' =
           [handlers EXCEPT ![c].pc = "send", ![c].runs = @ + 1,
                            ![c].pending =
                                AgentReply(IF raised THEN "Error while running analysis: {}"
                                           ELSE "model_text")]
    /\ UNCHANGED <<active_connections, sessions, health, notServer>>

\* lines 146-152, 165-173: send_text returns; the loop reads again
SendText(c) ==
    /\ handlers[c].pc = "send"
    /\ handlers' = [handlers EXCEPT ![c].pc = "receive", ![c].pending = NoFrame,
                                    ![c].replies = Append(@, handlers[c].pending)]
    /\ UNCHANGED <<active_connections, sessions, health, notServer>>

\* lines 175-180: send_text raises, the client has gone
SendTextRaises(c) ==
    /\ handlers[c].pc = "send"
    /\ Terminate(c, "disconnect")
    /\ UNCHANGED <<sessions, health, notServer>>

\* health_check
HealthCheck ==
    /\ health' = [status |-> "healthy",
                  active_connections |-> Cardinality(DOMAIN active_connections)]
    /\ UNCHANGED <<active_connections, handlers, sessions, notServer>>

NextServer ==
    \/ \E c \in Connections, user_id \in UserIds : Accept(c, user_id)
    \/ \E c \in Connections : StartSession(c)
    \/ \E c \in Connections : StartSessionRaises(c)
    \/ \E c \in Connections : ReceiveDisconnect(c)
    \/ \E c \in Connections : ReceiveMalformed(c)
    \/ \E c \in Connections : ReceiveOtherMime(c)
    \/ \E c \in Connections : ReceiveText(c)
    \/ \E c \in Connections, raised \in BOOLEAN : RunSingleTurn(c, raised)
    \/ \E c \in Connections : SendText(c)
    \/ \E c \in Connections : SendTextRaises(c)
    \/ HealthCheck

SpecServer == InitServer /\ [][NextServer]_vars

-----------------------------------------------------------------------------
(* Properties.                                                             *)

\* analyze_seo is past the error test of a successful crawl
Analysing == pc # "begin" /\ "error" \notin DOMAIN crawl_data

\* analyze_seo has returned the analysis of a successful crawl
Returned == pc = "done" /\ "error" \notin DOMAIN crawl_data

\* the issues whose template is tmpl
IssuesOf(a, tmpl) == SelectSeq(a.issues, LAMBDA f : f.tmpl = tmpl)

BoolToNat(b) == IF b THEN 1 ELSE 0

\* C1: on a successful crawl, after every check function and at the return,
\* total_checks >= passed_checks >= 0 and 0 <= seo_score <= 100.
C1_CountsAndScoreInRange ==
    Analysing =>
        /\ analysis.total_checks >= analysis.passed_checks
        /\ analysis.passed_checks >= 0
        /\ analysis.seo_score >= 0
        /\ analysis.seo_score <= 100

\* C1 witness: an analysis returned with some checks passed and some failed.
C1_Witness ==
    /\ Returned
    /\ result.passed_checks > 0
    /\ result.passed_checks < result.total_checks
    /\ result.seo_score > 0
    /\ result.seo_score < 100

\* C2 as stated, half-way values rounded up as in schoolbook rounding: the
\* returned seo_score is floor(passed / total * 100 + 1/2).
C2_ScoreRoundsHalfUp ==
    Returned =>
        result.seo_score =
            IF result.total_checks > 0
            THEN (200 * result.passed_checks + result.total_checks)
                     \div (2 * result.total_checks)
            ELSE 0

\* C2 amended: the returned seo_score is an integer nearest to
\* passed / total * 100, and the even one of the two when the quotient is
\* half-way between them (1/8 gives 12, 3/8 gives 38, 5/8 gives 62, 7/8 gives
\* 88); it is 0 when total_checks is 0.
C2_ScoreRoundsHalfEven ==
    Returned =>
        LET p == result.passed_checks
            t == result.total_checks
            d == result.seo_score * t - 100 * p
            dist == IF d < 0 THEN -d ELSE d
        IN  /\ t > 0 => 2 * dist <= t
            /\ (t > 0 /\ 2 * dist = t) => result.seo_score % 2 = 0
            /\ t = 0 => result.seo_score = 0

\* C2 witness: an analysis returned with 1 or 5 of 8 checks passed, where
\* the quotient is half-way and the score (12, 62) is the even neighbour.
C2_Witness ==
    /\ Returned
    /\ result.total_checks = 8
    /\ result.passed_checks \in {1, 5}
    /\ result.seo_score \in {12, 62}

\* the rule table of the specification, read off the crawl data
RuleTitle(d) == Truthy(d.title) /\ Len(d.title) >= 30 /\ Len(d.title) <= 60

RuleMetaDescription(d) ==
    Truthy(d.meta_description) /\ Len(d.meta_description) >= 120 /\ Len(d.meta_description) <= 160

RuleH1Count(d) == Len(d.headings.h1) = 1

HierarchyBroken(h) ==
    \/ Len(h.h2) > 0 /\ Len(h.h1) = 0
    \/ Len(h.h3) > 0 /\ Len(h.h2) = 0
    \/ Len(h.h4) > 0 /\ Len(h.h3) = 0

\* an alt with at least one character that is not white space
HasAltText(img) == \E j \in 1..Len(img.alt) : img.alt[j] # " "

AltCount(images) == Cardinality({i \in 1..Len(images) : HasAltText(images[i])})

RuleImageAlt(d) == 5 * AltCount(d.images) >= 4 * Len(d.images)

ParagraphWords(d) == SumSeq([i \in 1..Len(d.paragraphs) |-> SplitLen(d.paragraphs[i])])

RuleParagraphs(d) == ParagraphWords(d) >= 20 * Len(d.paragraphs)

\* the ranks among the first ten keywords whose density is above 3%
Offenders(d) ==
    {i \in 1..Len(d.keywords) : i <= 10 /\ d.keywords[i].percentage > 300}

RuleKeywords(d) == Offenders(d) = {}

\* the href contains a match of the pattern https?://([^/]+)
HrefMatches(href) == \E i \in 1..Len(href) : DomainMatchAt(href, i)

\* the links the claim C11 counts as internal: the pattern matches the href
\* and the host it extracts is the host of the page
ClaimedInternal(links, url) ==
    {i \in 1..Len(links) :
        /\ HrefMatches(links[i].href)
        /\ ExtractDomain(links[i].href) = ExtractDomain(url)}

InternalCount(d) == Cardinality(ClaimedInternal(d.links, d.url))

RuleLinks(d) == InternalCount(d) >= 3

RuleContent(d) == d.word_count >= 300

EvaluatedChecks(d) ==
    5 + BoolToNat(d.images # <<>>) + BoolToNat(d.paragraphs # <<>>)
      + BoolToNat(d.keywords # <<>>) + BoolToNat(d.links # <<>>)

PassingChecks(d) ==
    BoolToNat(RuleTitle(d)) + BoolToNat(RuleMetaDescription(d))
    + BoolToNat(RuleH1Count(d)) + BoolToNat(~HierarchyBroken(d.headings))
    + BoolToNat(d.images # <<>> /\ RuleImageAlt(d))
    + BoolToNat(d.paragraphs # <<>> /\ RuleParagraphs(d))
    + BoolToNat(d.keywords # <<>> /\ RuleKeywords(d))
    + BoolToNat(d.links # <<>> /\ RuleLinks(d))
    + BoolToNat(RuleContent(d))

\* C3: the returned total_checks is the number of checks evaluated (the
\* five that always run plus one per non-empty collection) and
\* passed_checks the number of evaluated checks whose rule of the table holds.
\* The code violates it on a page whose URL the domain pattern does not
\* match: links that are not internal are counted as internal (see C11).
C3_CountsFollowRuleTable ==
    Returned =>
        /\ result.total_checks = EvaluatedChecks(crawl_data)
        /\ result.passed_checks = PassingChecks(crawl_data)

\* C3 witness: all nine checks evaluated, the paragraph check passing on an
\* average of 20 words with a paragraph of 19, and every check passed.
C3_Witness ==
    /\ Returned
    /\ result.total_checks = 9
    /\ \E i \in 1..Len(crawl_data.paragraphs) : SplitLen(crawl_data.paragraphs[i]) < 20
    /\ RuleParagraphs(crawl_data)
    /\ result.passed_checks = 9

\* C4: right after the title check, the check has passed exactly when the
\* title is present with 30 to 60 characters (both inclusive); otherwise its
\* one issue is 'missing' for an absent or empty title, 'too short' with the
\* length below 30 and 'too long' with the length above 60.
C4_TitleCheck ==
    (Analysing /\ pc = "meta_description") =>
        LET title == crawl_data.title
        IN  /\ analysis.total_checks = 1
            /\ analysis.passed_checks = BoolToNat(RuleTitle(crawl_data))
            /\ analysis.issues =
                   IF ~Truthy(title) THEN <<Fmt("Title tag missing", "", 0)>>
                   ELSE IF Len(title) <= 29
                   THEN <<Fmt("Title too short ({} characters)", "", Len(title))>>
                   ELSE IF Len(title) >= 61
                   THEN <<Fmt("Title too long ({} characters)", "", Len(title))>>
                   ELSE <<>>
            /\ Len(analysis.recommendations) = Len(analysis.issues)

\* C4 witness: a title of 60 characters has passed the check.
C4_Witness ==
    /\ Analysing
    /\ pc = "meta_description"
    /\ crawl_data.title = Str(60)
    /\ analysis.passed_checks = 1
    /\ analysis.issues = <<>>
    /\ analysis.details["title"].status = "optimal"

\* C5: right after the heading checks, 'Heading hierarchy broken' is among
\* the issues (once) exactly when one of H2, H3, H4 is present while its
\* parent level is absent, and the hierarchy check has passed otherwise;
\* {h1:0,h2:1} and {h1:1,h2:0,h3:1} fail, {h1:1,h2:1,h3:1,h4:1} passes.
C5_HeadingHierarchy ==
    /\ ~CheckHeadingHierarchy(Headings(0, 1, 0, 0, 0))
    /\ ~CheckHeadingHierarchy(Headings(1, 0, 1, 0, 0))
    /\ CheckHeadingHierarchy(Headings(1, 1, 1, 1, 0))
    /\ (Analysing /\ pc = "images") =>
           /\ Len(IssuesOf(analysis, "Heading hierarchy broken"))
                  = BoolToNat(HierarchyBroken(crawl_data.headings))
           /\ analysis.total_checks = 4
           /\ analysis.passed_checks =
                  BoolToNat(RuleTitle(crawl_data)) + BoolToNat(RuleMetaDescription(crawl_data))
                  + BoolToNat(RuleH1Count(crawl_data))
                  + BoolToNat(~HierarchyBroken(crawl_data.headings))

\* C5 witness: H3 without H2 on a page with one H1: the hierarchy check has
\* failed although the H1 count check passed.
C5_Witness ==
    /\ Analysing
    /\ pc = "images"
    /\ Len(crawl_data.headings.h1) = 1
    /\ Len(crawl_data.headings.h2) = 0
    /\ Len(crawl_data.headings.h3) > 0
    /\ Len(IssuesOf(analysis, "Heading hierarchy broken")) = 1
    /\ IssuesOf(analysis, "H1 tag missing") = <<>>

\* C6: the heading step counts two checks; the H1 count check passes
\* exactly with one H1 and otherwise appends 'H1 tag missing' (no H1) or
\* 'Multiple H1 tags' with the count N (N > 1); the hierarchy check that
\* follows passes or fails on the hierarchy alone, whatever the H1 outcome.
C6_H1CountIndependent ==
    [][(pc = "headings") =>
          LET h == crawl_data.headings
              n == Len(h.h1)
              h1_issue == IF n = 0 THEN <<Fmt("H1 tag missing", "", 0)>>
                          ELSE IF n > 1 THEN <<Fmt("Multiple H1 tags ({} count)", "", n)>>
                          ELSE <<>>
              hierarchy_issue == IF HierarchyBroken(h)
                                 THEN <<Fmt("Heading hierarchy broken", "", 0)>>
                                 ELSE <<>>
          IN  /\ analysis'.total_checks = analysis.total_checks + 2
              /\ analysis'.passed_checks =
                     analysis.passed_checks + BoolToNat(n = 1) + BoolToNat(~HierarchyBroken(h))
              /\ analysis'.issues = analysis.issues \o h1_issue \o hierarchy_issue]_vars

\* C6 witness: two H1 and no other heading: the H1 count check has failed
\* with 'Multiple H1 tags (2 count)' while the hierarchy check passed.
C6_Witness ==
    /\ Analysing
    /\ pc = "images"
    /\ Len(crawl_data.headings.h1) = 2
    /\ IssuesOf(analysis, "Multiple H1 tags ({} count)")
           = <<Fmt("Multiple H1 tags ({} count)", "", 2)>>
    /\ IssuesOf(analysis, "Heading hierarchy broken") = <<>>
    /\ analysis.passed_checks =
           BoolToNat(RuleTitle(crawl_data)) + BoolToNat(RuleMetaDescription(crawl_data)) + 1

\* C7: on a page with images the alt check passes exactly when at least
\* 4/5 of the images have an alt with a character that is not white space
\* (4 of 5 pass); when it fails its one issue carries the number of images
\* without such an alt.
C7_ImageAltCoverage ==
    [][(pc = "images" /\ crawl_data.images # <<>>) =>
          LET images == crawl_data.images
              missing == Len(images) - AltCount(images)
          IN  /\ analysis'.total_checks = analysis.total_checks + 1
              /\ analysis'.passed_checks =
                     analysis.passed_checks + BoolToNat(RuleImageAlt(crawl_data))
              /\ analysis'.issues =
                     IF RuleImageAlt(crawl_data) THEN analysis.issues
                     ELSE Append(analysis.issues,
                                 Fmt("{} images missing alt text", "", missing))]_vars

\* C7 witness: five images, three with a text alt, one with a blank alt and
\* one without alt: the check has failed and reports 2 images.
C7_Witness ==
    /\ Analysing
    /\ pc = "paragraphs"
    /\ crawl_data.images = Images(3, 1, 1)
    /\ IssuesOf(analysis, "{} images missing alt text")
           = <<Fmt("{} images missing alt text", "", 2)>>

\* the step changes nothing of the analysis but details[key]
OnlyDetailAdded(key) ==
    /\ analysis'.total_checks = analysis.total_checks
    /\ analysis'.passed_checks = analysis.passed_checks
    /\ analysis'.issues = analysis.issues
    /\ analysis'.recommendations = analysis.recommendations
    /\ analysis'.seo_score = analysis.seo_score
    /\ DOMAIN analysis'.details = DOMAIN analysis.details \cup {key}
    /\ \A k \in DOMAIN analysis.details : analysis'.details[k] = analysis.details[k]

\* C8: the image, paragraph, keyword and link checks given an empty
\* collection leave total_checks, passed_checks, issues and recommendations
\* as they were and add only the zeroed (or empty) details entry.
C8_EmptyCollectionSkipped ==
    [][/\ (pc = "images" /\ crawl_data.images = <<>>) =>
              /\ OnlyDetailAdded("images")
              /\ analysis'.details["images"] = [total |-> 0, with_alt |-> 0, without_alt |-> 0]
       /\ (pc = "paragraphs" /\ crawl_data.paragraphs = <<>>) =>
              /\ OnlyDetailAdded("paragraphs")
              /\ analysis'.details["paragraphs"] = [total |-> 0, average_words |-> 0]
       /\ (pc = "keywords" /\ crawl_data.keywords = <<>>) =>
              /\ OnlyDetailAdded("keywords")
              /\ analysis'.details["keywords"] = [top_keywords |-> <<>>, density_issues |-> <<>>]
       /\ (pc = "links" /\ crawl_data.links = <<>>) =>
              /\ OnlyDetailAdded("links")
              /\ analysis'.details["links"] = [total |-> 0, internal |-> 0, external |-> 0]
      ]_vars

\* C8 witness: a page without images, paragraphs, keywords and links after
\* the link check: four checks counted, the four skipped entries recorded.
C8_Witness ==
    /\ Analysing
    /\ pc = "content_length"
    /\ crawl_data.images = <<>>
    /\ crawl_data.paragraphs = <<>>
    /\ crawl_data.keywords = <<>>
    /\ crawl_data.links = <<>>
    /\ analysis.total_checks = 4
    /\ {"images", "paragraphs", "keywords", "links"} \subseteq DOMAIN analysis.details
    /\ analysis.details["images"].total = 0

\* C9 as stated: the returned number of issues is total_checks - passed_checks.
C9_IssuesEqualFailedChecks ==
    Returned => Len(result.issues) = result.total_checks - result.passed_checks

\* the keyword check has run and found n > 1 keywords too dense: n - 1
ExtraDensityIssues ==
    IF pc \in {"links", "content_length", "score", "done"}
         /\ Cardinality(Offenders(crawl_data)) > 1
    THEN Cardinality(Offenders(crawl_data)) - 1
    ELSE 0

\* C9 amended: after every check and at the return, the recommendations
\* are one per failed check (total_checks - passed_checks), and the issues
\* are one per failed check plus, once the keyword check has failed, one
\* more for every too dense keyword of the first ten beyond the first.
C9_IssuesPerFailedCheck ==
    Analysing =>
        /\ Len(analysis.recommendations) = analysis.total_checks - analysis.passed_checks
        /\ Len(analysis.issues)
               = analysis.total_checks - analysis.passed_checks + ExtraDensityIssues

\* C9 witness: an analysis returned whose keyword check found two keywords
\* too dense and that has more issues than failed checks.
C9_Witness ==
    /\ Returned
    /\ Cardinality(Offenders(crawl_data)) = 2
    /\ Len(result.issues) = result.total_checks - result.passed_checks + 1
    /\ Len(result.recommendations) = result.total_checks - result.passed_checks

\* the i-th smallest element of the set S of numbers
Nth(S, i) == CHOOSE x \in S : Cardinality({y \in S : y <= x}) = i

\* C10: on a page with keywords the density check passes exactly when none
\* of the first ten keywords has a percentage above 3.0 (3.0 itself passes);
\* when it fails it appends one issue per such keyword, in rank order, and
\* nothing for the keywords of rank 11 and beyond.
C10_KeywordDensity ==
    [][(pc = "keywords" /\ crawl_data.keywords # <<>>) =>
          LET kw == crawl_data.keywords
              off == Offenders(crawl_data)
              before == Len(analysis.issues)
          IN  /\ analysis'.total_checks = analysis.total_checks + 1
              /\ analysis'.passed_checks = analysis.passed_checks + BoolToNat(off = {})
              /\ Len(analysis'.issues) = before + Cardinality(off)
              /\ SubSeq(analysis'.issues, 1, before) = analysis.issues
              /\ \A j \in 1..Cardinality(off) :
                     analysis'.issues[before + j] =
                         Fmt("\"{}\" keyword too dense ({}%)",
                             kw[Nth(off, j)].word, kw[Nth(off, j)].percentage)]_vars

\* C10 witness: twenty keywords all above 3%: the check has failed with ten
\* issues, the last one for the keyword of rank 10.
C10_Witness ==
    /\ Analysing
    /\ pc = "links"
    /\ Len(crawl_data.keywords) > 10
    /\ crawl_data.keywords[11].percentage > 300
    /\ Len(IssuesOf(analysis, "\"{}\" keyword too dense ({}%)")) = 10
    /\ analysis.issues[Len(analysis.issues)].w = crawl_data.keywords[10].word

\* C11 (as stated): of the links of an analysed page, exactly those whose
\* href matches scheme://host with the host of the page are counted as
\* internal; every other link, in particular every link whose href does not
\* match the pattern, is counted as external; and the link check passes
\* exactly when at least 3 links are internal.  The code violates it: for a
\* page URL the pattern does not match, the unmatched hrefs are internal.
C11_LinkClassification ==
    (Returned /\ crawl_data.links # <<>>) =>
        LET info == result.details["links"]
            internal == Cardinality(ClaimedInternal(crawl_data.links, crawl_data.url))
            low == IssuesOf(result, "Internal links count low ({} count)")
        IN  /\ info.internal = internal
            /\ info.external = Len(crawl_data.links) - internal
            /\ (low = <<>>) <=> (internal >= seo_rules.internal_links_min)

\* C11 failing input: a page requested as HTTP://a whose three links are
\* mailto: links; all three are counted internal and the link check passes.
C11_Witness ==
    /\ Returned
    /\ crawl_data.url = UpperUrl
    /\ Len(crawl_data.links) = seo_rules.internal_links_min
    /\ \A i \in 1..Len(crawl_data.links) : crawl_data.links[i].href = MailtoHref
    /\ result.details["links"].internal = seo_rules.internal_links_min
    /\ result.details["links"].external = 0
    /\ IssuesOf(result, "Internal links count low ({} count)") = <<>>

-----------------------------------------------------------------------------
(* Properties of extract_keywords (specification SpecKeywords).            *)

KeywordsReturned == pc = "keywords_extracted"

\* the positions of the words of the text that are counted
CountedPositions ==
    {i \in 1..Len(soup_text) :
        Len(soup_text[i]) >= min_length /\ Lower(soup_text[i]) \notin stop_words}

\* the positions at which the counted word w occurs
PositionsOf(w) == {i \in CountedPositions : Lower(soup_text[i]) = w}

CountedWords == {Lower(soup_text[i]) : i \in CountedPositions}

FirstPosition(w) == CHOOSE i \in PositionsOf(w) : \A j \in PositionsOf(w) : i <= j

\* v is ranked before w: more occurrences, or as many and an earlier first one
RankedBefore(v, w) ==
    \/ Cardinality(PositionsOf(v)) > Cardinality(PositionsOf(w))
    \/ /\ Cardinality(PositionsOf(v)) = Cardinality(PositionsOf(w))
       /\ FirstPosition(v) < FirstPosition(w)

\* the text 'SEO seo SEO testing testing'
ExampleText == <<TokenSEO, TokenSeo, TokenSEO, TokenTesting, TokenTesting>>

\* C12: extract_keywords returns at most top_n entries; each is a counted
\* word (lower-cased, at least min_length long, no stop word) with its
\* number of occurrences (at least 1) and the percentage
\* round(count / number of counted tokens * 100, 2); the entries are the
\* first ones in the order of decreasing count, ties in order of first
\* occurrence; without counted tokens the list is empty; and 'SEO seo SEO
\* testing testing' gives seo 3 60.0, testing 2 40.0.
C12_ExtractKeywords ==
    KeywordsReturned =>
        LET n == Len(extracted)
            total == Cardinality(CountedPositions)
        IN  /\ n <= top_n
            /\ n = IF top_n < Cardinality(CountedWords) THEN top_n
                   ELSE Cardinality(CountedWords)
            /\ \A i \in 1..n :
                   /\ extracted[i].word \in CountedWords
                   /\ extracted[i].count = Cardinality(PositionsOf(extracted[i].word))
                   /\ extracted[i].count >= 1
                   /\ extracted[i].percentage
                          = RoundHalfEven(extracted[i].count * 10000, total)
            /\ \A i \in 1..n : \A j \in (i + 1)..n :
                   RankedBefore(extracted[i].word, extracted[j].word)
            /\ \A w \in CountedWords :
                   (\A i \in 1..n : extracted[i].word # w) =>
                       \A i \in 1..n : RankedBefore(extracted[i].word, w)
            /\ (total = 0) => (extracted = <<>>)
            /\ (soup_text = ExampleText /\ min_length = ExtractMinLength
                    /\ top_n = ExtractTopN) =>
                   extracted = <<[word |-> TokenSeo, count |-> 3, percentage |-> 6000],
                                 [word |-> TokenTesting, count |-> 2, percentage |-> 4000]>>

\* C12 witness: 'ab testing testing ab seo' with min_length 2 and top_n 2:
\* two words tie at two occurrences, 'ab' that came first is listed first,
\* and 'seo' is cut off.
C12_Witness ==
    /\ KeywordsReturned
    /\ soup_text = <<TokenAb, TokenTesting, Lower(TokenTesting), TokenAb, TokenSeo>>
    /\ min_length = ExtractMinLength - 1
    /\ top_n = 2
    /\ extracted = <<[word |-> TokenAb, count |-> 2, percentage |-> 4000],
                     [word |-> TokenTesting, count |-> 2, percentage |-> 4000]>>

\* the sum of the percentages of the returned keywords, in hundredths
PercentageSum == SumSeq([i \in 1..Len(extracted) |-> extracted[i].percentage])

\* C13 (as stated): the percentages of the returned keywords sum to at most
\* 100.
C13_PercentagesSumAtMost100 ==
    KeywordsReturned => PercentageSum <= 10000

\* C13 (amended): the counts of the returned keywords sum to at most the
\* number of counted tokens, and their rounded percentages sum to at most
\* 100 + 0.005 per returned keyword.
C13_PercentagesSumBounded ==
    KeywordsReturned =>
        /\ SumSeq([i \in 1..Len(extracted) |-> extracted[i].count])
               <= Cardinality(CountedPositions)
        /\ 2 * PercentageSum <= 20000 + Len(extracted)

\* C13 witness: 'ab testing seo seo seo seo' with min_length 2: 16.67 +
\* 16.67 + 66.67 = 100.01.
C13_Witness ==
    /\ KeywordsReturned
    /\ soup_text = Runs(1, 1, 4)
    /\ Len(extracted) = 3
    /\ PercentageSum = 10001

-----------------------------------------------------------------------------
(* Properties of repeated calls (specification SpecRepeat).                *)

\* the calls that have returned
ReturnedCalls == {i \in 1..Len(calls) : calls[i].returned}

\* the two crawl data are the same
SameCrawlData(c, d) ==
    /\ ("error" \in DOMAIN c) <=> ("error" \in DOMAIN d)
    /\ c = d

-----------------------------------------------------------------------------
(* Properties of the report generators (specification Spec).               *)

\* the reports that have been generated from the returned analysis
Generated == {r \in {report, report_kw} : r.kind # "none"}

\* the passed tests a report lists: the templates of its bullets
PassedTestsOf(r) ==
    [i \in 1..Len(SelectSeq(r.passed_tests, LAMBDA l : l.tmpl = "* {}")) |->
        SelectSeq(r.passed_tests, LAMBDA l : l.tmpl = "* {}")[i].args[1].tmpl]

\* C18 (as stated): for the analysis of every successful crawl, pages
\* without images, paragraphs, links or keywords included, both report
\* generators return the report and do not raise, and the report with
\* keywords says 'No keywords extracted from content' when the keyword list
\* is empty.  The code violates it: for a page without images both
\* generators raise KeyError.
C18_ReportsNeverRaise ==
    Returned =>
        /\ \A r \in Generated : r.kind = "report" /\ r.raised = ""
        /\ (report_kw.kind # "none" /\ crawl_data.keywords = <<>>) =>
               \E i \in 1..Len(report_kw.keywords) :
                   report_kw.keywords[i] = Line("No keywords extracted from content", <<>>)

\* C18 failing input: a page without images; both generators have raised
\* KeyError: 'alt_ratio' after building the lines up to the issues.
C18_Witness ==
    /\ Returned
    /\ crawl_data.images = <<>>
    /\ report.kind = "raised" /\ report.raised = "KeyError: 'alt_ratio'"
    /\ report_kw.kind = "raised" /\ report_kw.raised = "KeyError: 'alt_ratio'"
    /\ "alt_ratio" \notin DOMAIN result.details["images"]

\* the check a passed-tests bullet is about has passed
BulletCheckPassed(tmpl) ==
    CASE tmpl = "Title tag length optimal ({} characters) - Within recommended 30-60 character range"
            -> RuleTitle(crawl_data)
      [] tmpl = "Meta description length appropriate ({} characters) - Within 120-160 character range"
            -> RuleMetaDescription(crawl_data)
      [] tmpl = "Single H1 tag present - Optimal page structure maintained"
            -> RuleH1Count(crawl_data)
      [] tmpl = "H1 tag contains content - Good for topical relevance"
            -> RuleH1Count(crawl_data)
      [] tmpl = "Images with alt text ({} out of {}) - Meets accessibility and SEO requirements"
            -> crawl_data.images # <<>> /\ RuleImageAlt(crawl_data)
      [] tmpl = "Content length sufficient ({} words) - Meets minimum content requirements"
            -> RuleContent(crawl_data)
      [] tmpl = "Internal links present ({} found) - Supports site navigation and SEO"
            -> crawl_data.links # <<>> /\ RuleLinks(crawl_data)
      [] OTHER -> FALSE

\* C19 (as stated): the passed-tests bullets of a report name only checks
\* that passed: every bullet is about a check that incremented
\* passed_checks, and there are at most passed_checks bullets (so no check
\* is both an issue and a passed test).  The code violates it.
C19_PassedTestsArePassedChecks ==
    Returned =>
        \A r \in Generated :
            (r.kind = "report") =>
                /\ Len(PassedTestsOf(r)) <= result.passed_checks
                /\ \A i \in 1..Len(PassedTestsOf(r)) : BulletCheckPassed(PassedTestsOf(r)[i])

\* C19 failing input: 44 images of which 9 have no alt text: the image
\* check failed with the issue '9 images missing alt text', and the report
\* lists 'Images with alt text (35 out of 44)' among the passed tests.
C19_Witness ==
    /\ Returned
    /\ crawl_data.images = ManyImages
    /\ IssuesOf(result, "{} images missing alt text")
           = <<Fmt("{} images missing alt text", "", 9)>>
    /\ report.kind = "report"
    /\ \E i \in 1..Len(report.passed_tests) :
           report.passed_tests[i]
               = Line("* {}",
                      <<Line("Images with alt text ({} out of {}) - Meets accessibility and SEO requirements",
                             <<35, 44>>)>>)

\* the banner of the claim C20
Band(seo_score) ==
    CASE seo_score >= 90 -> "Excellent"
      [] seo_score >= 70 /\ seo_score <= 89 -> "Good"
      [] seo_score >= 50 /\ seo_score <= 69 -> "Fair"
      [] seo_score < 50 -> "Poor"

\* the status line a generator built
StatusLines(r) == SelectSeq(r.header, LAMBDA l : l.tmpl = "Status: {}")

\* C20: the status banner a report generator builds from the analysis of a
\* successful crawl is decided by seo_score alone: Excellent from 90,
\* Good from 70 to 89, Fair from 50 to 69, Poor below 50; and the two
\* generators build the same banner.
C20_StatusBanner ==
    Returned =>
        /\ \A r \in Generated : StatusLines(r) = <<Line("Status: {}", <<Band(result.seo_score)>>)>>
        /\ (report.kind # "none" /\ report_kw.kind # "none") =>
               StatusLines(report) = StatusLines(report_kw)

\* C20 witness: a page that passed half of its checks: both reports say
\* 'Status: Fair' for the score 50.
C20_Witness ==
    /\ Returned
    /\ result.seo_score = 50
    /\ report.kind = "report" /\ report_kw.kind = "report"
    /\ StatusLines(report) = <<Line("Status: {}", <<"Fair">>)>>
    /\ StatusLines(report_kw) = <<Line("Status: {}", <<"Fair">>)>>

-----------------------------------------------------------------------------
(* crawl_webpage and the tools.                                            *)

\* crawl_webpage has returned to the tool that called it
CrawlReturned == tool # "none" /\ response.kind # "none" /\ pc # "fetched"

\* the fields of a crawl that succeeded
ContentFields ==
    {"title", "meta_description", "headings", "images", "paragraphs", "links",
     "keywords", "html_content", "text_content", "word_count"}

\* the error shape: a message, the url, status_code None and nothing else
ErrorShape(d, url) ==
    /\ DOMAIN d = {"error", "url", "status_code"}
    /\ d.error.tmpl \in {"Error fetching web page: {}", "Error during analysis: {}"}
    /\ d.url = url
    /\ d.status_code = None

\* the success shape: no error, every content field, the response's status
SuccessShape(d, url) ==
    /\ "error" \notin DOMAIN d
    /\ ContentFields \subseteq DOMAIN d
    /\ d.url = url
    /\ d.status_code = response.status_code

\* the request raised, or the body could not be parsed
FetchOrParseFailed == response.kind \in {"exception", "unparsable"}

\* C15: crawl_webpage returns the error shape (error, url, status_code
\* None, no content field) when the request raised, the status is not 2xx
\* or the parsing raised, and else the success shape (no error, every
\* content field, status_code the response's code): one of the two, never
\* an exception.
C15_CrawlErrorOrSuccess ==
    CrawlReturned =>
        IF FetchOrParseFailed \/ response.status_code < 200 \/ response.status_code >= 300
        THEN ErrorShape(crawl_data, UrlParameter(tool_url))
        ELSE SuccessShape(crawl_data, UrlParameter(tool_url))

\* the server answered 304 and crawl_webpage returned the success shape
C15_Witness ==
    /\ CrawlReturned
    /\ response.kind = "response"
    /\ response.status_code = 304
    /\ SuccessShape(crawl_data, PageUrl)
    /\ ~ErrorShape(crawl_data, PageUrl)

\* the url is empty or absent
EmptyOrAbsent(url) == url \in {Absent, None, <<>>}

\* C16: a tool called with an empty or absent url returns an error result,
\* and no GET request is issued in that call.
C16_NoRequestWithoutUrl ==
    (tool # "none" /\ EmptyOrAbsent(tool_url)) =>
        /\ gets = 0
        /\ response.kind = "none"
        /\ pc \in {"tool_entry", "tool_done"}
        /\ pc = "tool_done" =>
              /\ tool_result.status = "error"
              /\ tool_result.message = Line("URL parameter is required", <<>>)

\* extract_specific_tags was called without a url and has returned the error
C16_Witness ==
    /\ tool = "extract_specific_tags"
    /\ tool_url = Absent
    /\ pc = "tool_done"
    /\ tool_result.status = "error"
    /\ gets = 0

\* C17: when crawl_webpage returned an error, analyze_webpage_seo runs no
\* check and renders no report and returns a status-error result with the
\* url and the crawl's message; no tool issues a second GET; analyze_seo
\* called with the error result of a crawl returns only the error and
\* seo_score 0.
C17_FetchErrorShortCircuits ==
    /\ gets <= 1
    /\ (CrawlReturned /\ tool = "analyze_webpage_seo"
            /\ (FetchOrParseFailed \/ response.status_code >= 400)) =>
          /\ pc \in {"crawled", "tool_done"}
          /\ analysis = None /\ result = None /\ calls = <<>>
          /\ report.kind = "none" /\ report_kw.kind = "none"
          /\ pc = "tool_done" =>
                /\ DOMAIN tool_result = {"status", "message", "url"}
                /\ tool_result.status = "error"
                /\ tool_result.url = tool_url
                /\ tool_result.message =
                      Line("Error crawling web page: {}", <<crawl_data.error>>)
    /\ (tool = "none" /\ pc = "done") =>
          /\ result = [error |-> crawl_data.error, seo_score |-> 0]
          /\ analysis = None

\* the request timed out and analyze_webpage_seo has returned its error
C17_Witness ==
    /\ tool = "analyze_webpage_seo"
    /\ pc = "tool_done"
    /\ response.kind = "exception"
    /\ gets = 1
    /\ tool_result.status = "error"
    /\ tool_result.url = PageUrl
    /\ calls = <<>>

-----------------------------------------------------------------------------
(* The recommendation and keyword sections of the reports.                 *)

\* the recommendation bullets of a report
RecommendationsOf(r) == SelectSeq(r.recommendations, LAMBDA l : l.tmpl = "* {}: {}")

\* the label the claim C21 gives the i-th recommendation
ClaimedPriority(i) ==
    CASE i \in {1, 2} -> "HIGH PRIORITY"
      [] i \in {3, 4} -> "MEDIUM PRIORITY"
      [] OTHER -> "LOW PRIORITY"

\* the texts generate_seo_report_with_keywords puts in the place of a
\* recommendation about the meta description, alt texts or the content
Rewordings ==
    {"Write meta description (120-160 characters) including primary keyword \"{}\" and compelling CTA",
     "Add alt text to images using relevant keywords like \"{}\" and \"{}\" where contextually appropriate",
     "Expand content by 100-200 words focusing on \"{}\" and related terms for better topical coverage"}

\* bullet b lists the recommendation rec: verbatim, or reworded in the
\* report with keywords
ListsRecommendation(r, b, rec) ==
    IF r = report_kw
    THEN (b.tmpl = "{}" /\ b.args = <<rec>>) \/ b.tmpl \in Rewordings
    ELSE b = rec

KeywordLinesOf(r) ==
    SelectSeq(r.keywords, LAMBDA l : l.tmpl = "{}. {}: {} occurrences ({}% density) - {}")

\* the keywords the caller passed to generate_seo_report_with_keywords
GivenKeywords == crawl_data.keywords

\* the word is made of more than one word
MultiWord(word) == \E i \in 1..Len(Letters(word)) : IsSpace(Letters(word)[i])

\* the label the claim C22 gives the keyword of rank i
ClaimedKeywordType(i, word) ==
    CASE i = 1 -> "Primary"
      [] i \in 2..5 -> "Secondary"
      [] OTHER -> IF MultiWord(word) THEN "Long-tail" ELSE "Supporting"

\* C22: the keyword section lists the first 20 keywords it was given, in
\* their order, the i-th with rank i, labelled Primary (rank 1), Secondary
\* (ranks 2 to 5) and from rank 6 Long-tail when the keyword has more than
\* one word and Supporting otherwise.
C22_KeywordSection ==
    (Returned /\ report_kw.kind # "none") =>
        LET lines == KeywordLinesOf(report_kw)
            given == GivenKeywords
        IN  /\ Len(lines) = IF Len(given) < 20 THEN Len(given) ELSE 20
            /\ \A i \in 1..Len(lines) :
                  lines[i].args = <<i, given[i].word, given[i].count, given[i].percentage,
                                    ClaimedKeywordType(i, given[i].word)>>

\* C22 witness: 21 keywords were given; 20 are listed, the third (of two
\* words) as Secondary, the seventh (of two words) as Long-tail and the
\* eighth as Supporting.
C22_Witness ==
    /\ Returned
    /\ report_kw.kind = "report"
    /\ Len(GivenKeywords) = 21
    /\ Len(KeywordLinesOf(report_kw)) = 20
    /\ MultiWord(GivenKeywords[3].word)
    /\ KeywordLinesOf(report_kw)[3].args[5] = "Secondary"
    /\ KeywordLinesOf(report_kw)[7].args[5] = "Long-tail"
    /\ KeywordLinesOf(report_kw)[8].args[5] = "Supporting"

-----------------------------------------------------------------------------
(* The parsed document during the crawl (specification SpecTools).         *)

\* crawl_webpage has returned the result of a crawl that succeeded
CrawlSucceeded == CrawlReturned /\ ~CrawlFailed(crawl_data)

\* C23 (as stated): the extractors leave the parsed document as the parser
\* built it, extract_keywords included, and html_content, text_content and
\* word_count are those of the document as parsed: they are the same
\* whether they are computed before or after the keywords.  The code
\* violates it: extract_keywords removes the script and style elements from
\* the document, and html_content is computed afterwards.
C23_DocumentUnchanged ==
    CrawlSucceeded =>
        /\ soup = response.content
        /\ crawl_data.html_content = HtmlContent(response.content)
        /\ crawl_data.text_content = TextContent(response.content)
        /\ crawl_data.word_count = SplitLen(TextContent(response.content))

\* C23 failing input: a document with a script element was crawled; the
\* document no longer has it and html_content is the markup without it.
C23_Witness ==
    /\ CrawlSucceeded
    /\ response.content.scripts > 0
    /\ soup.scripts = 0
    /\ crawl_data.html_content # HtmlContent(response.content)
    /\ crawl_data.html_content = HtmlContent(soup)

-----------------------------------------------------------------------------
(* extract_images (specification SpecImages).                              *)

\* the img elements that have a src that is not empty
WithSrc(tags) == SelectSeq(tags, LAMBDA t : Attr(t.src) # <<>>)

\* the URL has a scheme and a host
IsAbsolute(u) == DomainMatchAt(u, 1)

\* C24 (as stated): extract_images returns one entry for each img element
\* with a src that is not empty, in document order, its src an absolute
\* URL; an img element without src or with an empty src has no entry.  The
\* code violates it: every img element gets an entry.
C24_ImagesWithSrcOnly ==
    pc = "images_extracted" =>
        /\ Len(images_found) = Len(WithSrc(img_tags))
        /\ \A i \in 1..Len(images_found) :
              /\ images_found[i].src # <<>>
              /\ IsAbsolute(images_found[i].src)
              /\ i <= Len(WithSrc(img_tags)) =>
                    images_found[i].alt = Attr(WithSrc(img_tags)[i].alt)

\* C24 failing input: an img element without src, followed by one with a
\* relative src: two entries are returned, the first with the src ''.
C24_Witness ==
    /\ pc = "images_extracted"
    /\ Len(img_tags) = 2
    /\ img_tags[1].src = None
    /\ img_tags[2].src = <<"i">>
    /\ base_url = DeepUrl
    /\ Len(images_found) = 2
    /\ images_found[1].src = <<>>
    /\ images_found[2].src = Http \o <<"a", "/", "d", "/", "i">>
-----------------------------------------------------------------------------
(* C25: the position of an element record.                                 *)

\* the claimed position: the 1-based ordinal of the element among the
\* immediate children of its parent, 0 for an object without parent
SiblingOrdinal(t, i) ==
    IF t.parent[i] = 0 THEN 0
    ELSE Cardinality({j \in DOMAIN t.parent : t.parent[j] = t.parent[i] /\ j <= i})

\* C25: the position get_element_position returns for an element is its
\* 1-based ordinal among the immediate children of its parent (0 for an
\* object without parent), whatever the shape of the tree, also when
\* earlier siblings have descendants of their own.  The code violates it:
\* it counts every element below the parent, at any depth, and stops at the
\* first element that compares equal to the tag.
C25_PositionIsSiblingOrdinal ==
    pc = "position_returned" => position = SiblingOrdinal(tree, tag)

\* an element whose earlier sibling has a descendant has had its position
\* computed, and no other element of the document compares equal to it
C25_Witness ==
    /\ pc = "position_returned"
    /\ tree.parent[tag] # 0
    /\ \E j \in DOMAIN tree.parent :
          /\ j < tag
          /\ tree.parent[j] = tree.parent[tag]
          /\ \E k \in DOMAIN tree.parent : tree.parent[k] = j
    /\ \A j \in DOMAIN tree.parent \ {tag} : ~TagEqual(tree, j, tag)
    /\ position > SiblingOrdinal(tree, tag)
-----------------------------------------------------------------------------
(* C26: the end-to-end scenario.                                           *)

\* the page of the scenario: no title, no meta description, exactly one h1,
\* a keyword of the first ten at 5%, at least 300 words, at least three
\* internal links and an alt text on every image
Scenario(d) ==
    /\ ~Truthy(d.title)
    /\ ~Truthy(d.meta_description)
    /\ Len(d.headings.h1) = 1
    /\ \E i \in Offenders(d) : d.keywords[i].percentage = 500
    /\ d.word_count >= 300
    /\ Cardinality(ClaimedInternal(d.links, d.url)) >= 3
    /\ \A i \in 1..Len(d.images) : Strip(d.images[i].alt) # <<>>

\* the score is an integer nearest to passed / total * 100
ScoreReflects(a, passed, total) ==
    LET d == a.seo_score * total - 100 * passed
    IN  2 * (IF d < 0 THEN -d ELSE d) <= total

IsDensityWarning(issue) == issue.tmpl = "\"{}\" keyword too dense ({}%)"

\* C26 as stated: analyze_seo returns for the page of the scenario an
\* issues list of keyword-density warnings only, passed_checks =
\* total_checks - 1 and the seo_score of that ratio.
C26_ScenarioOnlyDensityWarning ==
    (Returned /\ Scenario(crawl_data)) =>
        /\ result.issues # <<>>
        /\ \A i \in 1..Len(result.issues) : IsDensityWarning(result.issues[i])
        /\ result.passed_checks = result.total_checks - 1
        /\ ScoreReflects(result, result.total_checks - 1, result.total_checks)

\* the heading hierarchy and the paragraphs of the page pass their checks
ScenarioRestPasses(d) ==
    /\ ~HierarchyBroken(d.headings)
    /\ d.paragraphs # <<>> => RuleParagraphs(d)

\* C26 amended: analyze_seo returns for the page of the scenario, when its
\* heading hierarchy is valid and its paragraphs are long enough, the issues
\* 'Title tag missing' and 'Meta description missing' followed by one
\* keyword-density warning per too dense keyword of the first ten;
\* passed_checks = total_checks - 3 (the title, meta description and
\* keyword checks fail) and seo_score is that ratio as a rounded percentage.
C26_ScenarioThreeFailedChecks ==
    (Returned /\ Scenario(crawl_data) /\ ScenarioRestPasses(crawl_data)) =>
        /\ Len(result.issues) = 2 + Cardinality(Offenders(crawl_data))
        /\ result.issues[1] = Fmt("Title tag missing", "", 0)
        /\ result.issues[2] = Fmt("Meta description missing", "", 0)
        /\ \A i \in 3..Len(result.issues) : IsDensityWarning(result.issues[i])
        /\ result.passed_checks = result.total_checks - 3
        /\ ScoreReflects(result, result.total_checks - 3, result.total_checks)

\* C26 witness: the analysis of a page of the scenario with images and
\* paragraphs is returned: one density warning, 6 of 9 checks passed, score
\* 67.
C26_Witness ==
    /\ Returned
    /\ Scenario(crawl_data)
    /\ ScenarioRestPasses(crawl_data)
    /\ crawl_data.images # <<>>
    /\ crawl_data.paragraphs # <<>>
    /\ Len(result.issues) = 3
    /\ IsDensityWarning(result.issues[3])
    /\ result.total_checks = 9
    /\ result.passed_checks = 6
    /\ result.seo_score = 67
-----------------------------------------------------------------------------
(* C27: recommendations and issues against the failed checks.              *)

\* the checks of the returned analysis that failed
FailedChecks(a) == a.total_checks - a.passed_checks

\* the density issues the keyword check recorded in details
RecordedDensityIssues(a) ==
    IF "keywords" \in DOMAIN a.details THEN a.details["keywords"].density_issues ELSE <<>>

\* the check function that ran at pc has failed in this step
CheckFailed ==
    /\ analysis'.total_checks = analysis.total_checks + 1
    /\ analysis'.passed_checks = analysis.passed_checks

\* C27: the analysis analyze_seo returns for a successful crawl has as many
\* recommendations as failed checks (total_checks - passed_checks); its
\* issues are at least as many, and more only by the keyword-density issues
\* beyond the first.  Every check function appends exactly one
\* recommendation when it counts a failed check and none when the check
\* passes or is skipped; the heading check function runs two checks.
C27_RecommendationPerFailedCheck ==
    [][/\ (pc = "score" /\ "error" \notin DOMAIN crawl_data) =>
              LET a == result'
                  density == Len(RecordedDensityIssues(a))
              IN  /\ Len(a.recommendations) = FailedChecks(a)
                  /\ Len(a.issues) >= FailedChecks(a)
                  /\ Len(a.issues) - FailedChecks(a)
                         = IF density > 1 THEN density - 1 ELSE 0
       /\ (pc \in {"title", "meta_description", "headings", "images", "paragraphs",
                   "keywords", "links", "content_length"}
             /\ "error" \notin DOMAIN crawl_data) =>
              Len(analysis'.recommendations) - Len(analysis.recommendations)
                  = FailedChecks(analysis') - FailedChecks(analysis)
      ]_vars

\* C27 witness: an analysis returned with two density issues, a passed
\* check, a skipped check and failed checks: one recommendation per failed
\* check and one issue more.
C27_Witness ==
    /\ Returned
    /\ Len(RecordedDensityIssues(result)) = 2
    /\ crawl_data.images = <<>>
    /\ result.passed_checks > 0
    /\ FailedChecks(result) = 3
    /\ Len(result.recommendations) = 3
    /\ Len(result.issues) = 4
-----------------------------------------------------------------------------
(* C28: the number of checks.                                              *)

\* the collections of the crawl data that are not empty
NonEmptyCollections(d) ==
    BoolToNat(d.images # <<>>) + BoolToNat(d.paragraphs # <<>>)
        + BoolToNat(d.keywords # <<>>) + BoolToNat(d.links # <<>>)

\* C28: the analysis analyze_seo returns for a successful crawl has
\* total_checks = 5 (title, meta description, H1 count, heading hierarchy,
\* content length) plus one for each of images, paragraphs, keywords and
\* links that is not empty, so 5 <= total_checks <= 9; total_checks is
\* positive when the score is computed, so the score is the computed
\* percentage, and the result without counts and with seo_score 0 is
\* returned for an error result only.
C28_BetweenFiveAndNineChecks ==
    /\ Returned =>
          /\ result.total_checks = 5 + NonEmptyCollections(crawl_data)
          /\ 5 <= result.total_checks /\ result.total_checks <= 9
          /\ ScoreReflects(result, result.passed_checks, result.total_checks)
    /\ (pc = "score" /\ "error" \notin DOMAIN crawl_data) =>
          /\ analysis.total_checks > 0
          /\ analysis.seo_score = 0
    /\ (pc = "done" /\ "total_checks" \notin DOMAIN result) =>
          /\ "error" \in DOMAIN crawl_data
          /\ result.seo_score = 0

\* C28 witness: the analysis of a page without images, paragraphs,
\* keywords and links is returned with five checks counted.
C28_Witness ==
    /\ Returned
    /\ NonEmptyCollections(crawl_data) = 0
    /\ result.total_checks = 5
    /\ result.passed_checks > 0
-----------------------------------------------------------------------------
(* C29, C30: the WebSocket handlers.                                       *)

\* the handler of connection c is inside its receive loop
InLoop(c) == handlers[c].pc \in {"receive", "run", "send"}

\* the handler of connection c has terminated
Terminated(c) == handlers[c].pc = "closed"

\* the entry of active_connections that refers to the websocket of c
OwnEntries(c) ==
    {u \in DOMAIN active_connections : active_connections[u].websocket = c}

\* C29: under every interleaving of the connections, also of two that
\* overlap with the same user_id, every handler inside its receive loop has
\* an entry in active_connections that refers to its own websocket and
\* session, the count /health returns is the number of handlers inside the
\* loop, and a terminated handler has no entry of its own left.  The code
\* violates it: the dict is keyed by user_id, so a second connection of a
\* user replaces the entry of the first, and the handler that terminates
\* first deletes the entry of the other.
C29_HandlersRegistered ==
    /\ \A c \in DOMAIN handlers :
          InLoop(c) =>
              /\ handlers[c].user_id \in DOMAIN active_connections
              /\ active_connections[handlers[c].user_id].websocket = c
              /\ active_connections[handlers[c].user_id].session = handlers[c].session
    /\ Cardinality(DOMAIN active_connections)
           = Cardinality({c \in DOMAIN handlers : InLoop(c)})
    /\ \A c \in DOMAIN handlers : Terminated(c) => OwnEntries(c) = {}

\* C29 witness: two handlers of the same user are inside their loops, one
\* after its client disconnected would leave the other without entry; here
\* the dict holds one entry, that of the later connection.
C29_Witness ==
    /\ pc = "serving"
    /\ \E c, d \in DOMAIN handlers :
          /\ c < d
          /\ InLoop(c) /\ InLoop(d)
          /\ handlers[c].user_id = handlers[d].user_id
          /\ handlers[c].session # handlers[d].session
          /\ OwnEntries(c) = {}
          /\ OwnEntries(d) = {handlers[d].user_id}
          /\ Cardinality(DOMAIN active_connections) = 1

\* the reply the claim gives the i-th message of connection c
ClaimedReply(c, i) ==
    LET reply == handlers[c].replies[i]
    IN  /\ reply.turn_complete
        /\ handlers[c].messages[i] = "other" => reply = SystemReply
        /\ handlers[c].messages[i] # "other" =>
               reply \in {AgentReply("model_text"),
                          AgentReply("Error while running analysis: {}")}

\* C30: on an open WebSocket every message received is answered by exactly
\* one frame with turn_complete true before the next message is read: a
\* text/plain message by the agent's reply (the error text when the run
\* raised), a message of another mime type by the system's 'Unsupported mime
\* type' reply without a run of the agent; the loop ends only when the
\* client disconnects.  The code violates it: a frame that is not a JSON
\* object, or whose data is not a string, raises inside the loop, and the
\* handler leaves the loop without a reply.
C30_OneReplyPerMessage ==
    \A c \in DOMAIN handlers :
        /\ handlers[c].pc = "receive" =>
               Len(handlers[c].replies) = Len(handlers[c].messages)
        /\ Len(handlers[c].replies) <= Len(handlers[c].messages)
        /\ \A i \in 1..Len(handlers[c].replies) : ClaimedReply(c, i)
        /\ handlers[c].runs
               <= Cardinality({i \in 1..Len(handlers[c].messages) :
                                  handlers[c].messages[i] # "other"})
        /\ (Terminated(c) /\ handlers[c].session # 0) => handlers[c].ended = "disconnect"

\* C30 witness: a handler has answered a message, then received a frame
\* that is not a JSON object and terminated while the client was connected.
C30_Witness ==
    /\ pc = "serving"
    /\ \E c \in DOMAIN handlers :
          /\ Terminated(c)
          /\ handlers[c].ended = "error"
          /\ Len(handlers[c].messages) = 2
          /\ handlers[c].messages[2] = "malformed"
          /\ Len(handlers[c].replies) = 1

====
